---- MODULE Spec2Model ----
(***************************************************************************)
(* Reconditioning estimator: the part-price resolution (cache, marketplace *)
(* search, static table), the OAuth token cache and buildEstimate, which   *)
(* fans one asynchronous task out per damage observation.                  *)
(*                                                                         *)
(* Money is kept in cents, so that marketplace prices such as 70.50 are    *)
(* integers; the tables keep the dollar figures of the source and are      *)
(* converted where the code uses them.  Multipliers are kept in hundredths *)
(* (0.85 is 85).  Time is in milliseconds, as Date.now().                  *)
(* An optional value (null / undefined in the source) is a sequence of     *)
(* length 0 or 1.                                                          *)
(***************************************************************************)
EXTENDS Integers, Sequences, FiniteSets, TLC

VARIABLES
  now,          \* Date.now()
  version,      \* the copy of buildEstimate in use
  inspected,    \* the vehicle under inspection
  credentials,  \* EBAY_CLIENT_ID and EBAY_CLIENT_SECRET are both set
  cachedToken,  \* module variable cachedToken of ebay.ts
  cache,        \* table parts_price_cache, by cache_key
  call,         \* the buildEstimate call in progress: its phase and arguments
  tasks,        \* the promises of damageItems.map(async ...), by position
  output,       \* value the call resolved with, until its caller has used it
  calls,        \* number of buildEstimate calls made
  storeFaulted, \* history: the store answered some request with an error of its own
  market,       \* history: by cache key, the last quote resolved from the marketplace
  trial,        \* one application of a pure function: its input and result
  inspection,   \* table inspections: the row the analyze route stored, if any
  estimate_items, \* table estimate_items: the rows of that inspection, in order
  items         \* state `items` of the report page

\* what the analyze route stores and the report page shows
reportVars == <<inspection, estimate_items, items>>

vars == <<now, credentials, version, inspected, cachedToken, cache, call, tasks, output,
          calls, storeFaulted, market, trial, reportVars>>

----------------------------------------------------------------------------
(* Bounds of the model *)

MaxItems == 2

MaxCalls == 1

MaxRepeats == 3

MaxTime == 1209600000

(* Program constants *)

CacheTtlMs == 604800000

TokenMarginMs == 60000

MinResults == 3

MaxSamples == 5

DefaultPartLow == 50

DefaultPartHigh == 200

DefaultLaborLow == 100

DefaultLaborHigh == 250

None == <<>>

Some(x) == <<x>>

Min(a, b) == IF a <= b THEN a ELSE b

----------------------------------------------------------------------------
(* Strings.  The two string conversions of the source, on the names the    *)
(* model uses.                                                             *)

toLowerCase(s) ==
  CASE s = "Side Mirror" -> "side mirror"
    [] s = "Side  Mirror" -> "side  mirror"
    [] s = "Toyota" -> "toyota"
    [] s = "BMW" -> "bmw"
    [] s = "Land Rover" -> "land rover"
    [] s = "LAND  ROVER" -> "land  rover"
    [] s = "Accord" -> "accord"
    [] s = "ACCORD" -> "accord"
    [] s = "Range Rover" -> "range rover"
    [] s = "RANGE ROVER" -> "range rover"
    [] s = "Alfa Romeo" -> "alfa romeo"
    [] s = "Rolls Royce" -> "rolls royce"
    [] s = "ROLLS ROYCE" -> "rolls royce"
    [] s = "Aston Martin" -> "aston martin"
    [] s = "Mercedes-Benz" -> "mercedes-benz"
    [] s = "Nissan" -> "nissan"
    [] s = "Saturn" -> "saturn"
    [] OTHER -> s

\* s.replace(/\s+/g, "_")
replaceWhitespace(s) ==
  CASE s = "side mirror" -> "side_mirror"
    [] s = "side  mirror" -> "side_mirror"
    [] s = "Side Mirror" -> "Side_Mirror"
    [] s = "land rover" -> "land_rover"
    [] s = "land  rover" -> "land_rover"
    [] s = "range rover" -> "range_rover"
    [] s = "alfa romeo" -> "alfa_romeo"
    [] s = "rolls royce" -> "rolls_royce"
    [] s = "aston martin" -> "aston_martin"
    [] OTHER -> s

normalizePart(partName) == replaceWhitespace(toLowerCase(partName))

\* the members an object literal inherits from Object.prototype, by name: a
\* lookup by one of these names finds the inherited function
ObjectPrototype == {"constructor", "toString", "valueOf", "hasOwnProperty"}

\* stands for a function value: truthy, and not a string
NativeFunction == "[Function]"

\* stands, where the source expects a number, for a value that is none (a
\* function, undefined)
NotANumber == 0 - 1

----------------------------------------------------------------------------
(* Price tables, in dollars *)

REPAIR_COSTS ==
  "touch_up_paint" :> [description |-> "Touch-up paint for chips and small scratches",
      labor_low |-> 30, labor_high |-> 75, materials_low |-> 15, materials_high |-> 40] @@
  "scratch_buff_polish" :> [description |-> "Machine buff and polish to remove light scratches",
      labor_low |-> 50, labor_high |-> 150, materials_low |-> 10, materials_high |-> 30] @@
  "spot_respray_small" :> [description |-> "Spot respray for localized damage (< 6 inches)",
      labor_low |-> 100, labor_high |-> 250, materials_low |-> 40, materials_high |-> 80] @@
  "full_panel_respray" :> [description |-> "Full panel sand, prime, and respray",
      labor_low |-> 200, labor_high |-> 450, materials_low |-> 60, materials_high |-> 150] @@
  "blend_adjacent_panel" :> [description |-> "Blend paint into adjacent panel for color match",
      labor_low |-> 100, labor_high |-> 200, materials_low |-> 30, materials_high |-> 60] @@
  "clear_coat_respray" :> [description |-> "Clear coat repair for peeling or faded clear",
      labor_low |-> 150, labor_high |-> 350, materials_low |-> 40, materials_high |-> 100] @@
  "pdr_small" :> [description |-> "Paintless dent repair - small dent (< 2 inches)",
      labor_low |-> 75, labor_high |-> 150, materials_low |-> 0, materials_high |-> 0] @@
  "pdr_large" :> [description |-> "Paintless dent repair - large dent (2-5 inches)",
      labor_low |-> 150, labor_high |-> 300, materials_low |-> 0, materials_high |-> 0] @@
  "body_filler_repair" :> [description |-> "Body filler, sand, prime and paint for dent with paint damage",
      labor_low |-> 200, labor_high |-> 500, materials_low |-> 40, materials_high |-> 100] @@
  "bumper_repair_plastic" :> [description |-> "Plastic bumper repair (crack/gouge fill and respray)",
      labor_low |-> 150, labor_high |-> 400, materials_low |-> 30, materials_high |-> 80] @@
  "rust_repair_spot" :> [description |-> "Spot rust treatment, sand, prime and paint",
      labor_low |-> 100, labor_high |-> 300, materials_low |-> 20, materials_high |-> 60] @@
  "rust_repair_panel" :> [description |-> "Panel rust repair with cutting, welding, and refinish",
      labor_low |-> 300, labor_high |-> 800, materials_low |-> 50, materials_high |-> 150] @@
  "windshield_chip_repair" :> [description |-> "Windshield chip/crack repair (resin injection)",
      labor_low |-> 40, labor_high |-> 80, materials_low |-> 10, materials_high |-> 20] @@
  "curb_rash_repair" :> [description |-> "Wheel curb rash sand, fill, and refinish (per wheel)",
      labor_low |-> 75, labor_high |-> 150, materials_low |-> 15, materials_high |-> 40] @@
  "interior_detail_shampoo" :> [description |-> "Full interior deep clean and shampoo",
      labor_low |-> 80, labor_high |-> 200, materials_low |-> 20, materials_high |-> 50] @@
  "leather_repair_small" :> [description |-> "Small leather/vinyl repair (tear, crack, or discoloration)",
      labor_low |-> 60, labor_high |-> 150, materials_low |-> 15, materials_high |-> 40] @@
  "leather_repair_large" :> [description |-> "Large leather panel repair or re-dye",
      labor_low |-> 150, labor_high |-> 350, materials_low |-> 30, materials_high |-> 80] @@
  "carpet_stain_removal" :> [description |-> "Carpet stain treatment and extraction",
      labor_low |-> 40, labor_high |-> 120, materials_low |-> 10, materials_high |-> 30] @@
  "headliner_repair" :> [description |-> "Headliner sag repair or partial re-glue",
      labor_low |-> 100, labor_high |-> 250, materials_low |-> 20, materials_high |-> 50] @@
  "seat_burn_repair" :> [description |-> "Cigarette burn or small hole repair in fabric/leather",
      labor_low |-> 50, labor_high |-> 125, materials_low |-> 10, materials_high |-> 30] @@
  "dashboard_repair" :> [description |-> "Dashboard crack or damage repair",
      labor_low |-> 75, labor_high |-> 200, materials_low |-> 15, materials_high |-> 40] @@
  "headlight_restoration" :> [description |-> "Headlight lens restoration (sand, polish, UV seal)",
      labor_low |-> 30, labor_high |-> 80, materials_low |-> 10, materials_high |-> 25] @@
  "engine_bay_detail" :> [description |-> "Engine bay cleaning and dressing",
      labor_low |-> 50, labor_high |-> 150, materials_low |-> 15, materials_high |-> 40] @@
  "exhaust_tip_polish" :> [description |-> "Exhaust tip cleaning and polish",
      labor_low |-> 15, labor_high |-> 40, materials_low |-> 5, materials_high |-> 10] @@
  "full_exterior_detail" :> [description |-> "Full exterior wash, clay bar, polish, and wax/sealant",
      labor_low |-> 100, labor_high |-> 250, materials_low |-> 30, materials_high |-> 60]

INSTALLATION_LABOR ==
  "front_bumper_cover" :> [labor_low |-> 150, labor_high |-> 350] @@
  "rear_bumper_cover" :> [labor_low |-> 150, labor_high |-> 350] @@
  "fender" :> [labor_low |-> 200, labor_high |-> 400] @@
  "hood" :> [labor_low |-> 150, labor_high |-> 300] @@
  "trunk_lid" :> [labor_low |-> 150, labor_high |-> 300] @@
  "door_shell" :> [labor_low |-> 250, labor_high |-> 500] @@
  "side_mirror" :> [labor_low |-> 50, labor_high |-> 150] @@
  "headlight_assembly" :> [labor_low |-> 50, labor_high |-> 175] @@
  "tail_light_assembly" :> [labor_low |-> 40, labor_high |-> 125] @@
  "grille" :> [labor_low |-> 30, labor_high |-> 100] @@
  "windshield" :> [labor_low |-> 100, labor_high |-> 250] @@
  "rear_window" :> [labor_low |-> 100, labor_high |-> 250] @@
  "door_glass" :> [labor_low |-> 75, labor_high |-> 200] @@
  "wheel_rim" :> [labor_low |-> 25, labor_high |-> 60] @@
  "tire" :> [labor_low |-> 20, labor_high |-> 40] @@
  "rocker_panel" :> [labor_low |-> 200, labor_high |-> 450] @@
  "quarter_panel" :> [labor_low |-> 400, labor_high |-> 900] @@
  "radiator_support" :> [labor_low |-> 200, labor_high |-> 500] @@
  "bumper_reinforcement" :> [labor_low |-> 100, labor_high |-> 250] @@
  "fog_light" :> [labor_low |-> 30, labor_high |-> 80] @@
  "door_handle" :> [labor_low |-> 40, labor_high |-> 120] @@
  "antenna" :> [labor_low |-> 20, labor_high |-> 60]

STATIC_PART_PRICES ==
  "front_bumper_cover" :> [price_low |-> 80, price_high |-> 250] @@
  "rear_bumper_cover" :> [price_low |-> 80, price_high |-> 250] @@
  "fender" :> [price_low |-> 60, price_high |-> 200] @@
  "hood" :> [price_low |-> 150, price_high |-> 400] @@
  "trunk_lid" :> [price_low |-> 150, price_high |-> 400] @@
  "door_shell" :> [price_low |-> 200, price_high |-> 600] @@
  "side_mirror" :> [price_low |-> 30, price_high |-> 120] @@
  "headlight_assembly" :> [price_low |-> 50, price_high |-> 200] @@
  "tail_light_assembly" :> [price_low |-> 30, price_high |-> 150] @@
  "grille" :> [price_low |-> 30, price_high |-> 150] @@
  "windshield" :> [price_low |-> 150, price_high |-> 400] @@
  "rear_window" :> [price_low |-> 100, price_high |-> 300] @@
  "door_glass" :> [price_low |-> 60, price_high |-> 200] @@
  "wheel_rim" :> [price_low |-> 80, price_high |-> 250] @@
  "tire" :> [price_low |-> 80, price_high |-> 200] @@
  "rocker_panel" :> [price_low |-> 40, price_high |-> 150] @@
  "quarter_panel" :> [price_low |-> 100, price_high |-> 400] @@
  "radiator_support" :> [price_low |-> 60, price_high |-> 200] @@
  "bumper_reinforcement" :> [price_low |-> 40, price_high |-> 120] @@
  "fog_light" :> [price_low |-> 20, price_high |-> 80] @@
  "door_handle" :> [price_low |-> 10, price_high |-> 50] @@
  "antenna" :> [price_low |-> 10, price_high |-> 40]

mapping ==
  "scratch" :> [minor |-> "scratch_buff_polish", moderate |-> "spot_respray_small", severe |-> "full_panel_respray"] @@
  "deep_scratch" :> [minor |-> "spot_respray_small", moderate |-> "full_panel_respray", severe |-> "full_panel_respray"] @@
  "dent_small" :> [minor |-> "pdr_small", moderate |-> "pdr_small", severe |-> "pdr_large"] @@
  "dent_large" :> [minor |-> "pdr_large", moderate |-> "body_filler_repair", severe |-> "body_filler_repair"] @@
  "paint_chip" :> [minor |-> "touch_up_paint", moderate |-> "touch_up_paint", severe |-> "spot_respray_small"] @@
  "paint_fade" :> [minor |-> "scratch_buff_polish", moderate |-> "full_panel_respray", severe |-> "full_panel_respray"] @@
  "clear_coat_peel" :> [minor |-> "clear_coat_respray", moderate |-> "clear_coat_respray", severe |-> "full_panel_respray"] @@
  "rust_spot" :> [minor |-> "rust_repair_spot", moderate |-> "rust_repair_spot", severe |-> "rust_repair_panel"] @@
  "rust_heavy" :> [minor |-> "rust_repair_panel", moderate |-> "rust_repair_panel", severe |-> "rust_repair_panel"] @@
  "crack" :> [minor |-> "bumper_repair_plastic", moderate |-> "bumper_repair_plastic", severe |-> "bumper_repair_plastic"] @@
  "tear" :> [minor |-> "leather_repair_small", moderate |-> "leather_repair_large", severe |-> "leather_repair_large"] @@
  "stain" :> [minor |-> "carpet_stain_removal", moderate |-> "interior_detail_shampoo", severe |-> "interior_detail_shampoo"] @@
  "burn" :> [minor |-> "seat_burn_repair", moderate |-> "seat_burn_repair", severe |-> "leather_repair_large"] @@
  "curb_rash" :> [minor |-> "curb_rash_repair", moderate |-> "curb_rash_repair", severe |-> "curb_rash_repair"] @@
  "foggy" :> [minor |-> "headlight_restoration", moderate |-> "headlight_restoration", severe |-> "headlight_restoration"] @@
  "discolored" :> [minor |-> "scratch_buff_polish", moderate |-> "interior_detail_shampoo", severe |-> "full_panel_respray"]

TIER_MAP ==
  "nissan" :> "economy" @@
  "hyundai" :> "economy" @@
  "kia" :> "economy" @@
  "mitsubishi" :> "economy" @@
  "suzuki" :> "economy" @@
  "fiat" :> "economy" @@
  "toyota" :> "mainstream" @@
  "honda" :> "mainstream" @@
  "ford" :> "mainstream" @@
  "chevrolet" :> "mainstream" @@
  "gmc" :> "mainstream" @@
  "dodge" :> "mainstream" @@
  "chrysler" :> "mainstream" @@
  "jeep" :> "mainstream" @@
  "ram" :> "mainstream" @@
  "subaru" :> "mainstream" @@
  "mazda" :> "mainstream" @@
  "volkswagen" :> "mainstream" @@
  "buick" :> "mainstream" @@
  "acura" :> "premium" @@
  "infiniti" :> "premium" @@
  "volvo" :> "premium" @@
  "lincoln" :> "premium" @@
  "cadillac" :> "premium" @@
  "mini" :> "premium" @@
  "alfa_romeo" :> "premium" @@
  "genesis" :> "premium" @@
  "bmw" :> "luxury" @@
  "mercedes" :> "luxury" @@
  "mercedes-benz" :> "luxury" @@
  "audi" :> "luxury" @@
  "lexus" :> "luxury" @@
  "tesla" :> "luxury" @@
  "jaguar" :> "luxury" @@
  "porsche" :> "ultra_luxury" @@
  "land_rover" :> "ultra_luxury" @@
  "range rover" :> "ultra_luxury" @@
  "maserati" :> "ultra_luxury" @@
  "bentley" :> "ultra_luxury" @@
  "rolls_royce" :> "ultra_luxury" @@
  "ferrari" :> "ultra_luxury" @@
  "lamborghini" :> "ultra_luxury" @@
  "aston_martin" :> "ultra_luxury"
includesTable ==
  { <<"touch_up_paint", "touch_up">>, <<"scratch_buff_polish", "buff">>, <<"scratch_buff_polish", "polish">>,
    <<"scratch_buff_polish", "scratch">>, <<"curb_rash_repair", "curb_rash">>, <<"interior_detail_shampoo", "shampoo">>,
    <<"interior_detail_shampoo", "detail">>, <<"interior_detail_shampoo", "interior">>, <<"leather_repair_small", "leather">>,
    <<"leather_repair_large", "leather">>, <<"carpet_stain_removal", "stain">>, <<"carpet_stain_removal", "carpet">>,
    <<"seat_burn_repair", "seat">>, <<"seat_burn_repair", "burn">>, <<"headlight_restoration", "headlight">>,
    <<"headlight_restoration", "restoration">>, <<"engine_bay_detail", "detail">>, <<"exhaust_tip_polish", "polish">>,
    <<"full_exterior_detail", "detail">>, <<"driver seat", "seat">> }

----------------------------------------------------------------------------
(* vehicle-tiers.ts and labor-rates.ts; multipliers in hundredths *)

\* fault: the economy multiplier typed as 1.15 for 0.85
MistypedTierMultipliers ==
  "economy" :> 115 @@ "mainstream" :> 100 @@ "premium" :> 130 @@
  "luxury" :> 160 @@ "ultra_luxury" :> 220

TIER_MULTIPLIERS ==
  "economy" :> 85 @@ "mainstream" :> 100 @@ "premium" :> 130 @@
  "luxury" :> 160 @@ "ultra_luxury" :> 220

\* TIER_MAP[normalized] || "mainstream"
getVehicleTier(make) ==
  LET normalized == replaceWhitespace(toLowerCase(make))
  IN  CASE normalized \in DOMAIN TIER_MAP -> TIER_MAP[normalized]
        [] normalized \in ObjectPrototype -> NativeFunction
        [] OTHER -> "mainstream"

getTierMultiplier(make) ==
  LET tier == getVehicleTier(make)
  IN  IF tier \in DOMAIN TIER_MULTIPLIERS THEN TIER_MULTIPLIERS[tier] ELSE NotANumber

LABOR_RATE_MULTIPLIERS == "low" :> 80 @@ "medium" :> 100 @@ "high" :> 130

\* LABOR_RATE_MULTIPLIERS[tier] || 1.0
getLaborRateMultiplier(tier) ==
  CASE tier \in DOMAIN LABOR_RATE_MULTIPLIERS -> LABOR_RATE_MULTIPLIERS[tier]
    [] tier \in ObjectPrototype -> NotANumber
    [] OTHER -> 100

\* Math.round(n / d) for n >= 0, d > 0: the nearest integer, halves upwards
MathRound(n, d) == (2 * n + d) \div (2 * d)

\* Math.round(dollars * tierMultiplier * laborMultiplier), as cents
roundLabor(dollars, tierMultiplier, laborMultiplier) ==
  100 * MathRound(dollars * tierMultiplier * laborMultiplier, 10000)

\* fault: Math.floor for Math.round
truncParts(cents, tierMultiplier) == 100 * ((cents * tierMultiplier) \div 10000)

\* Math.round(price * tierMultiplier) of a price held in cents, as cents
roundParts(cents, tierMultiplier) == 100 * MathRound(cents * tierMultiplier, 10000)

----------------------------------------------------------------------------
(* repair-costs.ts *)

\* fault: a part the table does not list is priced at nothing
getStaticPartPriceOrZero(partName) ==
  LET normalized == normalizePart(partName)
  IN  IF normalized \in DOMAIN STATIC_PART_PRICES
      THEN STATIC_PART_PRICES[normalized]
      ELSE [price_low |-> 0, price_high |-> 0]

getStaticPartPrice(partName) ==
  LET normalized == normalizePart(partName)
  IN  IF normalized \in DOMAIN STATIC_PART_PRICES
      THEN STATIC_PART_PRICES[normalized]
      ELSE [price_low |-> DefaultPartLow, price_high |-> DefaultPartHigh]

\* mapping[damageType]?.[severity] || "spot_respray_small"
getRepairType(damageType, severity) ==
  CASE damageType \in DOMAIN mapping /\ severity \in DOMAIN mapping[damageType] ->
         mapping[damageType][severity]
    [] damageType \in DOMAIN mapping \cup ObjectPrototype /\ severity \in ObjectPrototype ->
         NativeFunction
    [] OTHER -> "spot_respray_small"

\* fault: a panel missing from the list
paintablePartsWithoutRocker ==
  { "front_bumper_cover", "rear_bumper_cover", "fender", "hood",
    "trunk_lid", "door_shell", "quarter_panel" }

paintableParts ==
  { "front_bumper_cover", "rear_bumper_cover", "fender", "hood",
    "trunk_lid", "door_shell", "quarter_panel", "rocker_panel" }

----------------------------------------------------------------------------
(* product-links.ts *)

includes(s, needle) == <<s, needle>> \in includesTable

undefinedLink == [kind |-> "undefined", url |-> "", q |-> <<>>]

listingLink(itemUrl) == [kind |-> "listing", url |-> itemUrl, q |-> <<>>]

\* https://www.ebay.com/sch/i.html?_nkw=<part year make model>&_sacat=6030
searchLink(partName, vehicle) ==
  [kind |-> "search", url |-> "https://www.ebay.com/sch/i.html",
   q |-> <<partName, vehicle.year, vehicle.make, vehicle.model>>]

amazonLink(u) == [kind |-> "cleaning", url |-> u, q |-> <<>>]

getCleaningProductLink(repairType, location) ==
  LET r == toLowerCase(repairType)
      l == toLowerCase(location)
  IN  IF includes(r, "touch_up") \/ includes(r, "paint_chip")
        THEN Some([link |-> amazonLink("https://www.amazon.com/s?k=automotive+touch+up+paint+pen"),
                   label |-> "View Touch-Up Paint Products"])
      ELSE IF includes(r, "buff") \/ includes(r, "polish") \/ includes(r, "scratch")
        THEN Some([link |-> amazonLink("https://www.amazon.com/s?k=car+scratch+remover+compound"),
                   label |-> "View Scratch Removal Products"])
      ELSE IF \/ includes(r, "shampoo") \/ includes(r, "detail") \/ includes(r, "stain")
              \/ includes(l, "interior") \/ includes(l, "seat") \/ includes(l, "carpet")
        THEN Some([link |-> amazonLink("https://www.amazon.com/s?k=automotive+interior+cleaner+shampoo"),
                   label |-> "View Interior Cleaning Products"])
      ELSE IF includes(r, "leather") \/ includes(r, "tear") \/ includes(r, "burn")
        THEN Some([link |-> amazonLink("https://www.amazon.com/s?k=leather+repair+kit+automotive"),
                   label |-> "View Leather Repair Products"])
      ELSE IF includes(r, "headlight") \/ includes(r, "restoration") \/ includes(r, "foggy")
        THEN Some([link |-> amazonLink("https://www.amazon.com/s?k=headlight+restoration+kit"),
                   label |-> "View Headlight Restoration Kits"])
      ELSE IF includes(r, "curb_rash") \/ includes(r, "wheel") \/ includes(l, "wheel")
        THEN Some([link |-> amazonLink("https://www.amazon.com/s?k=wheel+cleaner+rim+cleaner"),
                   label |-> "View Wheel Cleaning Products"])
      ELSE IF includes(r, "detail") \/ includes(r, "clean")
        THEN Some([link |-> amazonLink("https://www.amazon.com/s?k=automotive+detailing+products"),
                   label |-> "View Detailing Products"])
      ELSE None

----------------------------------------------------------------------------
(* ebay-parts.ts: the reduction of a search response to a price summary *)

\* fault: the compatibility filter left out
anyListing(item) == TRUE

qualifies(item) == item.compatibilityMatch \in {"EXACT", "COMPATIBLE"}

\* prices.sort((a, b) => a - b)
RECURSIVE sortAscending(_)
sortAscending(s) ==
  IF Len(s) <= 1 THEN s
  ELSE LET x == Head(s)
           rest == sortAscending(Tail(s))
       IN  SelectSeq(rest, LAMBDA y : y <= x) \o <<x>> \o SelectSeq(rest, LAMBDA y : y > x)

\* fault: Math.floor((prices.length - 1) / 2)
lowerMedianIndex(prices) == (Len(prices) - 1) \div 2

\* Math.floor(prices.length / 2), an index counted from 0
medianIndex(prices) == Len(prices) \div 2

\* the value searchEbayParts returns for a 2xx response with these itemSummaries
summarize(itemSummaries) ==
  IF Len(itemSummaries) = 0 THEN None
  ELSE
    LET kept == SelectSeq(itemSummaries, qualifies)
        listings == [i \in 1..Len(kept) |->
                       [price |-> kept[i].price, itemUrl |-> kept[i].itemWebUrl]]
        prices == sortAscending([i \in 1..Len(listings) |-> listings[i].price])
    IN  IF Len(listings) = 0 THEN None
        ELSE Some([source |-> "ebay",
                   results_count |-> Len(listings),
                   price_low |-> prices[1],
                   price_median |-> prices[medianIndex(prices) + 1],
                   price_high |-> prices[Len(prices)],
                   sample_listings |-> SubSeq(listings, 1, Min(MaxSamples, Len(listings)))])

----------------------------------------------------------------------------
(* parts-cache.ts: the three quotes getPartPrice can return *)

buildCacheKey(partName, vehicle) ==
  <<normalizePart(partName), vehicle.year, toLowerCase(vehicle.make),
    toLowerCase(vehicle.model)>>

cacheHitQuote(cached, partName, vehicle) ==
  [source |-> cached.source,
   price_low |-> cached.price_low,
   price_median |-> cached.price_median,
   price_high |-> cached.price_high,
   product_link |->
     IF cached.source = "ebay"
     THEN IF Len(cached.raw_data.sample_listings) > 0
          THEN listingLink(cached.raw_data.sample_listings[1].itemUrl)
          ELSE searchLink(partName, vehicle)
     ELSE IF cached.source = "static" THEN searchLink(partName, vehicle)
     ELSE undefinedLink]

marketQuote(ebayResult) ==
  [source |-> "ebay",
   price_low |-> ebayResult.price_low,
   price_median |-> ebayResult.price_median,
   price_high |-> ebayResult.price_high,
   product_link |->
     IF Len(ebayResult.sample_listings) > 0
     THEN listingLink(ebayResult.sample_listings[1].itemUrl)
     ELSE undefinedLink]

staticQuote(partName, vehicle) ==
  LET staticPrice == getStaticPartPrice(partName)
  IN  [source |-> "static",
       price_low |-> 100 * staticPrice.price_low,
       price_median |-> (100 * (staticPrice.price_low + staticPrice.price_high)) \div 2,
       price_high |-> 100 * staticPrice.price_high,
       product_link |-> searchLink(partName, vehicle)]

\* the row getPartPrice upserts, built when the search answered at `time`
\* fault: the row is tagged with the name of the fallback
cacheRowTaggedStatic(partName, vehicle, ebayResult, time) ==
  [cache_key |-> buildCacheKey(partName, vehicle),
   part_name |-> partName,
   source |-> "static",
   price_low |-> ebayResult.price_low,
   price_median |-> ebayResult.price_median,
   price_high |-> ebayResult.price_high,
   raw_data |-> ebayResult,
   fetched_at |-> time,
   expires_at |-> time + CacheTtlMs]

cacheRow(partName, vehicle, ebayResult, time) ==
  [cache_key |-> buildCacheKey(partName, vehicle),
   part_name |-> partName,
   source |-> "ebay",
   price_low |-> ebayResult.price_low,
   price_median |-> ebayResult.price_median,
   price_high |-> ebayResult.price_high,
   raw_data |-> ebayResult,
   fetched_at |-> time,
   expires_at |-> time + CacheTtlMs]

----------------------------------------------------------------------------
(* damage-mapper.ts: one line item.  The repository holds two copies of    *)
(* buildEstimate: the one of damage-mapper.ts, and the later one (stored   *)
(* after the tables in repair-costs.ts) that adds product links and leaves *)
(* minor items out by default.  `copy` names the copy.                     *)

Versions == {"damage-mapper.ts", "repair-costs.ts"}

isIncluded(severity, copy) ==
  IF copy = "repair-costs.ts" THEN severity # "minor" ELSE TRUE

isReplacement(item) == item.requires_part_replacement /\ item.part_name # ""

\* fault: cost_high without the labor
lineItemPartsOnly(item, recommendedRepair, partsLow, partsHigh, laborLow, laborHigh, pricingSource, productLink, productLinkLabel, copy) ==
  [id |-> item.id,
   location |-> item.location,
   damage_type |-> item.damage_type,
   severity |-> item.severity,
   recommended_repair |-> recommendedRepair,
   parts_cost_low |-> partsLow,
   parts_cost_high |-> partsHigh,
   labor_cost_low |-> laborLow,
   labor_cost_high |-> laborHigh,
   cost_low |-> partsLow + laborLow,
   cost_high |-> partsHigh,
   pricing_source |-> pricingSource,
   product_link |-> IF copy = "repair-costs.ts" THEN productLink ELSE undefinedLink,
   product_link_label |-> IF copy = "repair-costs.ts" THEN productLinkLabel ELSE "",
   is_included |-> isIncluded(item.severity, copy)]

lineItem(item, recommendedRepair, partsLow, partsHigh, laborLow, laborHigh, pricingSource, productLink, productLinkLabel, copy) ==
  [id |-> item.id,
   location |-> item.location,
   damage_type |-> item.damage_type,
   severity |-> item.severity,
   recommended_repair |-> recommendedRepair,
   parts_cost_low |-> partsLow,
   parts_cost_high |-> partsHigh,
   labor_cost_low |-> laborLow,
   labor_cost_high |-> laborHigh,
   cost_low |-> partsLow + laborLow,
   cost_high |-> partsHigh + laborHigh,
   pricing_source |-> pricingSource,
   product_link |-> IF copy = "repair-costs.ts" THEN productLink ELSE undefinedLink,
   product_link_label |-> IF copy = "repair-costs.ts" THEN productLinkLabel ELSE "",
   is_included |-> isIncluded(item.severity, copy)]

\* fault: the part price scaled by the tier whatever its source
replacementLineItemAlwaysScaled(item, partPrice, make, laborRateTier, copy) ==
  LET tierMultiplier == getTierMultiplier(make)
      laborMultiplier == getLaborRateMultiplier(laborRateTier)
      normalizedPart == normalizePart(item.part_name)
      installLabor == IF normalizedPart \in DOMAIN INSTALLATION_LABOR
                      THEN INSTALLATION_LABOR[normalizedPart]
                      ELSE [labor_low |-> DefaultLaborLow, labor_high |-> DefaultLaborHigh]
      paint == normalizedPart \in paintableParts
      paintCost == REPAIR_COSTS["full_panel_respray"]
      extraLabor(d) == IF paint THEN roundLabor(d, tierMultiplier, laborMultiplier) ELSE 0
      extraParts(d) == IF paint THEN 100 * d ELSE 0
  IN  lineItem(item,
        <<"Replace ", item.part_name, IF paint THEN " + prime/paint" ELSE "">>,
        roundParts(partPrice.price_low, tierMultiplier) + extraParts(paintCost.materials_low),
        roundParts(partPrice.price_high, tierMultiplier) + extraParts(paintCost.materials_high),
        roundLabor(installLabor.labor_low, tierMultiplier, laborMultiplier)
          + extraLabor(paintCost.labor_low),
        roundLabor(installLabor.labor_high, tierMultiplier, laborMultiplier)
          + extraLabor(paintCost.labor_high),
        partPrice.source,
        partPrice.product_link,
        "View Replacement Part on eBay",
        copy)

\* the PART REPLACEMENT PATH, after getPartPrice returned partPrice
replacementLineItem(item, partPrice, make, laborRateTier, copy) ==
  LET tierMultiplier == getTierMultiplier(make)
      laborMultiplier == getLaborRateMultiplier(laborRateTier)
      scaled(p) == IF partPrice.source = "static" THEN roundParts(p, tierMultiplier) ELSE p
      normalizedPart == normalizePart(item.part_name)
      installLabor == IF normalizedPart \in DOMAIN INSTALLATION_LABOR
                      THEN INSTALLATION_LABOR[normalizedPart]
                      ELSE [labor_low |-> DefaultLaborLow, labor_high |-> DefaultLaborHigh]
      paint == normalizedPart \in paintableParts
      paintCost == REPAIR_COSTS["full_panel_respray"]
      extraLabor(d) == IF paint THEN roundLabor(d, tierMultiplier, laborMultiplier) ELSE 0
      extraParts(d) == IF paint THEN 100 * d ELSE 0
  IN  lineItem(item,
        <<"Replace ", item.part_name, IF paint THEN " + prime/paint" ELSE "">>,
        scaled(partPrice.price_low) + extraParts(paintCost.materials_low),
        scaled(partPrice.price_high) + extraParts(paintCost.materials_high),
        roundLabor(installLabor.labor_low, tierMultiplier, laborMultiplier)
          + extraLabor(paintCost.labor_low),
        roundLabor(installLabor.labor_high, tierMultiplier, laborMultiplier)
          + extraLabor(paintCost.labor_high),
        partPrice.source,
        partPrice.product_link,
        "View Replacement Part on eBay",
        copy)

\* fault: the materials scaled by the tier like the labor
repairLineItemScaledMaterials(item, make, laborRateTier, copy) ==
  LET tierMultiplier == getTierMultiplier(make)
      laborMultiplier == getLaborRateMultiplier(laborRateTier)
      repairType == getRepairType(item.damage_type, item.severity)
      known == repairType \in DOMAIN REPAIR_COSTS
      repairCost == REPAIR_COSTS[repairType]
      cleaningLink == getCleaningProductLink(repairType, item.location)
  IN  lineItem(item,
        IF known THEN <<repairCost.description>> ELSE <<"">>,
        IF known THEN roundParts(100 * repairCost.materials_low, tierMultiplier) ELSE 0,
        IF known THEN roundParts(100 * repairCost.materials_high, tierMultiplier) ELSE 0,
        IF known THEN roundLabor(repairCost.labor_low, tierMultiplier, laborMultiplier) ELSE 0,
        IF known THEN roundLabor(repairCost.labor_high, tierMultiplier, laborMultiplier) ELSE 0,
        "static",
        IF cleaningLink # None THEN cleaningLink[1].link ELSE undefinedLink,
        IF cleaningLink # None THEN cleaningLink[1].label ELSE "",
        copy)

\* the REPAIR-ONLY PATH
repairLineItem(item, make, laborRateTier, copy) ==
  LET tierMultiplier == getTierMultiplier(make)
      laborMultiplier == getLaborRateMultiplier(laborRateTier)
      repairType == getRepairType(item.damage_type, item.severity)
      known == repairType \in DOMAIN REPAIR_COSTS
      repairCost == REPAIR_COSTS[repairType]
      cleaningLink == getCleaningProductLink(repairType, item.location)
  IN  lineItem(item,
        IF known THEN <<repairCost.description>> ELSE <<"">>,
        IF known THEN 100 * repairCost.materials_low ELSE 0,
        IF known THEN 100 * repairCost.materials_high ELSE 0,
        IF known THEN roundLabor(repairCost.labor_low, tierMultiplier, laborMultiplier) ELSE 0,
        IF known THEN roundLabor(repairCost.labor_high, tierMultiplier, laborMultiplier) ELSE 0,
        "static",
        IF cleaningLink # None THEN cleaningLink[1].link ELSE undefinedLink,
        IF cleaningLink # None THEN cleaningLink[1].label ELSE "",
        copy)

----------------------------------------------------------------------------
(* Inputs and answers of the environment *)

IdPool == <<"a", "b", "c", "d">>

Makes == {"kia", "Toyota", "BMW"}

Vehicles == {[year |-> 2019, make |-> m, model |-> "Accord"] : m \in Makes}

LaborTiers == {"low", "high"}

observation(damageType, severity, requiresPart, partName) ==
  [location |-> "front bumper", damage_type |-> damageType, severity |-> severity,
   requires_part_replacement |-> requiresPart, part_name |-> partName]

\* observations without their id: a replacement of a paintable panel, of
\* another listed part and of an unlisted part, a repair, and an observation
\* flagged for replacement that names no part
Observations ==
  { observation("crack", "minor", TRUE, "front_bumper_cover"),
    observation("crack", "severe", TRUE, "Side Mirror"),
    observation("crack", "moderate", TRUE, "exotic_spoiler"),
    observation("dent_small", "minor", FALSE, ""),
    observation("scratch", "severe", TRUE, "") }

withId(o, id) ==
  [id |-> id, location |-> o.location, damage_type |-> o.damage_type,
   severity |-> o.severity, requires_part_replacement |-> o.requires_part_replacement,
   part_name |-> o.part_name]

\* lists of at most MaxItems observations; the ids are distinct
DamageItemLists ==
  UNION {{[i \in 1..n |-> withId(os[i], IdPool[i])] : os \in [1..n -> Observations]} :
         n \in 0..MaxItems}

\* seconds of validity the token endpoint grants: the usual two hours, and a
\* validity shorter than the safety margin
ExpiresIn == {7200, 30}

TokenResponses ==
  {[kind |-> k, access_token |-> "", expires_in |-> 0] :
      k \in {"network_error", "http_error"}}
  \cup
  {[kind |-> "ok", access_token |-> "v^1.1#token", expires_in |-> e] : e \in ExpiresIn}

summary(price, match, url) ==
  [price |-> price, compatibilityMatch |-> match, itemWebUrl |-> url]

\* scenario 3 of the specification: five compatible listings
FiveListings ==
  << summary(9000, "EXACT", "itm/1"), summary(10000, "COMPATIBLE", "itm/2"),
     summary(11000, "EXACT", "itm/3"), summary(13000, "EXACT", "itm/4"),
     summary(15000, "COMPATIBLE", "itm/5") >>

\* four compatible listings out of price order, and a cheaper one that is not
FourListings ==
  << summary(9000, "EXACT", "itm/6"), summary(100, "INEXACT", "itm/7"),
     summary(5000, "COMPATIBLE", "itm/8"), summary(20000, "EXACT", "itm/9"),
     summary(7050, "EXACT", "itm/10") >>

\* two compatible listings among four
TwoListings ==
  << summary(4000, "EXACT", "itm/11"), summary(4100, "UNKNOWN", "itm/12"),
     summary(4200, "INEXACT", "itm/13"), summary(4500, "COMPATIBLE", "itm/14") >>

SearchResponses ==
  {[kind |-> k, itemSummaries |-> <<>>] : k \in {"network_error", "http_error"}}
  \cup
  {[kind |-> "ok", itemSummaries |-> l] :
      l \in {<<>>, FiveListings, FourListings, TwoListings}}

----------------------------------------------------------------------------
(* State *)

NoCall == [phase |-> "idle", damageItems |-> <<>>, laborRateTier |-> "medium"]

NoTrial == [op |-> "none", input |-> <<>>, output |-> <<>>]

\* a fresh process on an empty store
Boot ==
  /\ now = 0
  /\ cachedToken = None
  /\ cache = {}
  /\ call = NoCall
  /\ tasks = <<>>
  /\ output = None
  /\ calls = 0
  /\ storeFaulted = FALSE
  /\ market = {}
  /\ inspection = None
  /\ estimate_items = <<>>
  /\ items = <<>>

Init ==
  /\ Boot
  /\ credentials \in BOOLEAN
  /\ version \in Versions
  /\ inspected \in Vehicles
  /\ trial = NoTrial

\* the task of one observation as damageItems.map starts it: the repair-only
\* path runs to its end at once, the replacement path up to the cache lookup
startTask(item, laborRateTier, time) ==
  IF isReplacement(item)
  THEN [pc |-> "lookup", at |-> time, cached |-> None, token |-> None,
        tokenError |-> "", storeError |-> FALSE, response |-> None, pending |-> None,
        tiers |-> <<"cache">>, wrote |-> FALSE, partPrice |-> None, result |-> None]
  ELSE [pc |-> "done", at |-> time, cached |-> None, token |-> None,
        tokenError |-> "", storeError |-> FALSE, response |-> None, pending |-> None,
        tiers |-> <<>>, wrote |-> FALSE, partPrice |-> None,
        result |-> Some(repairLineItem(item, inspected.make, laborRateTier, version))]

\* getPartPrice returns partPrice and the task builds its line item
resolved(t, item, partPrice) ==
  [t EXCEPT !.pc = "done",
            !.token = None,
            !.pending = None,
            !.partPrice = Some(partPrice),
            !.result = Some(replacementLineItem(item, partPrice, inspected.make,
                                                call.laborRateTier, version))]

\* 3. Fall back to static pricing
fallBack(t, item) ==
  resolved([t EXCEPT !.tiers = Append(@, "static")], item,
           staticQuote(item.part_name, inspected))

\* fault: no catch block, the exception rejects the task
uncaught(t, item) == [t EXCEPT !.pc = "rejected"]

\* the catch block of searchEbayParts: an exception becomes "no result", on
\* which getPartPrice falls back
caught(t, item) == fallBack(t, item)

\* fault: a cached token is used whatever its expiry
tokenIsCached == cachedToken # None

\* getEbayAccessToken answers from cachedToken
tokenIsFresh == cachedToken # None /\ cachedToken[1].expires_at > now + TokenMarginMs

\* the search request leaves with this bearer token
searching(t, accessToken) == [t EXCEPT !.pc = "search", !.token = Some(accessToken)]

\* 2. Try eBay: searchEbayParts up to its first request
tryEbay(t, item) ==
  LET t2 == [t EXCEPT !.tiers = Append(@, "marketplace")]
  IN  IF tokenIsFresh THEN searching(t2, cachedToken[1].access_token)
      ELSE IF ~credentials THEN caught([t2 EXCEPT !.tokenError = "no_credentials"], item)
      ELSE [t2 EXCEPT !.pc = "token"]

\* fault: gte for gt in the expiry filter
liveRowsInclusive(key, time) == {r \in cache : r.cache_key = key /\ r.expires_at >= time}

liveRows(key, time) == {r \in cache : r.cache_key = key /\ r.expires_at > time}

----------------------------------------------------------------------------
(* Operations *)

BuildEstimate(damageItems, laborRateTier) ==
  /\ call.phase = "idle"
  /\ calls' = calls + 1
  /\ call' = [phase |-> "running", damageItems |-> damageItems,
              laborRateTier |-> laborRateTier]
  /\ tasks' = [i \in 1..Len(damageItems) |-> startTask(damageItems[i], laborRateTier, now)]
  /\ UNCHANGED <<now, credentials, version, inspected, cachedToken, cache, output,
                 storeFaulted, market, trial, reportVars>>

\* fault: the marketplace is asked even though the select found a live row
CacheLookupIgnored(i, fault) ==
  /\ call.phase = "running"
  /\ i \in DOMAIN tasks
  /\ tasks[i].pc = "lookup"
  /\ LET item == call.damageItems[i]
         rows == liveRows(buildCacheKey(item.part_name, inspected), tasks[i].at)
         cached == IF ~fault /\ Cardinality(rows) = 1
                   THEN Some(CHOOSE r \in rows : TRUE) ELSE None
     IN  tasks' = [tasks EXCEPT ![i] =
                     tryEbay([@ EXCEPT !.cached = cached, !.storeError = fault], item)]
  /\ storeFaulted' = (storeFaulted \/ fault)
  /\ UNCHANGED <<now, credentials, version, inspected, cachedToken, cache, call, output,
                 calls, market, trial, reportVars>>

\* fault: a failed select rejects the resolution and nothing catches it
CacheLookupThrows(i, fault) ==
  /\ call.phase = "running"
  /\ i \in DOMAIN tasks
  /\ tasks[i].pc = "lookup"
  /\ LET item == call.damageItems[i]
         rows == liveRows(buildCacheKey(item.part_name, inspected), tasks[i].at)
         cached == IF ~fault /\ Cardinality(rows) = 1
                   THEN Some(CHOOSE r \in rows : TRUE) ELSE None
     IN  tasks' = [tasks EXCEPT ![i] =
                     IF fault THEN [@ EXCEPT !.pc = "rejected", !.storeError = TRUE]
                     ELSE IF cached # None
                     THEN resolved([@ EXCEPT !.cached = cached], item,
                                   cacheHitQuote(cached[1], item.part_name, inspected))
                     ELSE tryEbay(@, item)]
  /\ storeFaulted' = (storeFaulted \/ fault)
  /\ UNCHANGED <<now, credentials, version, inspected, cachedToken, cache, call, output,
                 calls, market, trial, reportVars>>

\* the store answers the select of task i
CacheLookupResponse(i, fault) ==
  /\ call.phase = "running"
  /\ i \in DOMAIN tasks
  /\ tasks[i].pc = "lookup"
  /\ LET item == call.damageItems[i]
         rows == liveRows(buildCacheKey(item.part_name, inspected), tasks[i].at)
         cached == IF ~fault /\ Cardinality(rows) = 1
                   THEN Some(CHOOSE r \in rows : TRUE) ELSE None
     IN  tasks' = [tasks EXCEPT ![i] =
                     IF cached # None
                     THEN resolved([@ EXCEPT !.cached = cached], item,
                                   cacheHitQuote(cached[1], item.part_name, inspected))
                     ELSE tryEbay([@ EXCEPT !.storeError = fault], item)]
  /\ storeFaulted' = (storeFaulted \/ fault)
  /\ UNCHANGED <<now, credentials, version, inspected, cachedToken, cache, call, output,
                 calls, market, trial, reportVars>>

\* the token endpoint answers the request of task i
TokenResponse(i, response) ==
  /\ call.phase = "running"
  /\ i \in DOMAIN tasks
  /\ tasks[i].pc = "token"
  /\ IF response.kind = "ok"
     THEN /\ cachedToken' = Some([access_token |-> response.access_token,
                                  expires_at |-> now + response.expires_in * 1000])
          /\ tasks' = [tasks EXCEPT ![i] = searching(@, response.access_token)]
     ELSE /\ tasks' = [tasks EXCEPT ![i] =
                          caught([@ EXCEPT !.tokenError = response.kind],
                                 call.damageItems[i])]
          /\ UNCHANGED cachedToken
  /\ UNCHANGED <<now, credentials, version, inspected, cache, call, output, calls,
                 storeFaulted, market, trial, reportVars>>

\* the marketplace answers the search of task i
SearchResponse(i, response) ==
  /\ call.phase = "running"
  /\ i \in DOMAIN tasks
  /\ tasks[i].pc = "search"
  /\ LET item == call.damageItems[i]
         ebayResult == IF response.kind = "ok" THEN summarize(response.itemSummaries)
                       ELSE None
         t == [tasks[i] EXCEPT !.response = Some(response)]
     IN  tasks' = [tasks EXCEPT ![i] =
                     IF response.kind = "network_error" THEN caught(t, item)
                     ELSE IF ebayResult # None /\ ebayResult[1].results_count >= MinResults
                     THEN [t EXCEPT !.pc = "upsert",
                                    !.pending = Some(cacheRow(item.part_name, inspected,
                                                              ebayResult[1], now))]
                     ELSE fallBack(t, item)]
  /\ UNCHANGED <<now, credentials, version, inspected, cachedToken, cache, call, output,
                 calls, storeFaulted, market, trial, reportVars>>

\* fault: a failed upsert discards the marketplace quote for the static one
UpsertFailureFallsBack(i, fault) ==
  /\ call.phase = "running"
  /\ i \in DOMAIN tasks
  /\ tasks[i].pc = "upsert"
  /\ LET item == call.damageItems[i]
         row == tasks[i].pending[1]
         duplicate == \E r \in cache : r.cache_key = row.cache_key
         stored == ~fault /\ ~duplicate
         partPrice == marketQuote(row.raw_data)
     IN  /\ cache' = IF stored THEN cache \cup {row} ELSE cache
         /\ tasks' = [tasks EXCEPT ![i] =
                       IF stored
                       THEN resolved([@ EXCEPT !.wrote = TRUE], item, partPrice)
                       ELSE fallBack([@ EXCEPT !.storeError = @ \/ fault], item)]
         /\ market' = IF stored
                      THEN {m \in market : m.key # row.cache_key}
                             \cup {[key |-> row.cache_key, partPrice |-> partPrice,
                                    at |-> tasks[i].at, call |-> calls]}
                      ELSE market
  /\ storeFaulted' = (storeFaulted \/ fault)
  /\ UNCHANGED <<now, credentials, version, inspected, cachedToken, call, output, calls,
                 trial, reportVars>>

\* the store answers the upsert of task i.  The upsert names no conflict
\* column, so it resolves conflicts on the primary key id only; the row it
\* sends has a fresh id, and a stored row with the same cache_key (live or
\* expired) makes the insert fail on the unique constraint of cache_key.
UpsertResponse(i, fault) ==
  /\ call.phase = "running"
  /\ i \in DOMAIN tasks
  /\ tasks[i].pc = "upsert"
  /\ LET item == call.damageItems[i]
         row == tasks[i].pending[1]
         duplicate == \E r \in cache : r.cache_key = row.cache_key
         stored == ~fault /\ ~duplicate
         partPrice == marketQuote(row.raw_data)
     IN  /\ cache' = IF stored THEN cache \cup {row} ELSE cache
         /\ tasks' = [tasks EXCEPT ![i] =
                       resolved([@ EXCEPT !.wrote = stored, !.storeError = @ \/ fault],
                                item, partPrice)]
         /\ market' = {m \in market : m.key # row.cache_key}
                        \cup {[key |-> row.cache_key, partPrice |-> partPrice,
                               at |-> tasks[i].at, call |-> calls]}
  /\ storeFaulted' = (storeFaulted \/ fault)
  /\ UNCHANGED <<now, credentials, version, inspected, cachedToken, call, output, calls,
                 trial, reportVars>>

\* fault: the function returns the array `estimates`, which nothing fills
ReturnEstimates ==
  /\ call.phase = "running"
  /\ \A i \in DOMAIN tasks : tasks[i].pc = "done"
  /\ output' = Some(<<>>)
  /\ call' = [call EXCEPT !.phase = "returned"]
  /\ UNCHANGED <<now, credentials, version, inspected, cachedToken, cache, tasks, calls,
                 storeFaulted, market, trial, reportVars>>

\* Promise.all resolves once every task has
Return ==
  /\ call.phase = "running"
  /\ \A i \in DOMAIN tasks : tasks[i].pc = "done"
  /\ output' = Some([i \in DOMAIN tasks |-> tasks[i].result[1]])
  /\ call' = [call EXCEPT !.phase = "returned"]
  /\ UNCHANGED <<now, credentials, version, inspected, cachedToken, cache, tasks, calls,
                 storeFaulted, market, trial, reportVars>>

\* the caller has used the estimate and the request ends
Respond ==
  /\ call.phase = "returned"
  /\ call' = NoCall
  /\ tasks' = <<>>
  /\ output' = None
  /\ UNCHANGED <<now, credentials, version, inspected, cachedToken, cache, calls,
                 storeFaulted, market, trial, reportVars>>

\* the instants at which a stored expiry changes what the next read sees
Instants ==
  {r.expires_at : r \in cache}


\* time passes
Tick ==
  /\ \E t \in Instants : t > now /\ t <= MaxTime /\ now' = t
  /\ UNCHANGED <<credentials, version, inspected, cachedToken, cache, call, tasks, output,
                 calls, storeFaulted, market, trial, reportVars>>

\* every step but the start of a call
Step ==
  \/ \E i \in 1..MaxItems, fault \in BOOLEAN : CacheLookupResponse(i, fault)
  \/ \E i \in 1..MaxItems, r \in TokenResponses : TokenResponse(i, r)
  \/ \E i \in 1..MaxItems, r \in SearchResponses : SearchResponse(i, r)
  \/ \E i \in 1..MaxItems, fault \in BOOLEAN : UpsertResponse(i, fault)
  \/ Return
  \/ Respond
  \/ Tick

\* calls that fan out over up to MaxItems observations
Next ==
  \/ \E d \in DamageItemLists, l \in LaborTiers : calls < MaxCalls /\ BuildEstimate(d, l)
  \/ Step

Spec == Init /\ [][Next]_vars

\* one observation per call, over a longer history
NextRepeated ==
  \/ \E d \in {l \in DamageItemLists : Len(l) = 1}, l \in LaborTiers :
        calls < MaxRepeats /\ BuildEstimate(d, l)
  \/ Step

SpecRepeated == Init /\ [][NextRepeated]_vars

\* one call of one observation.  The event loop runs every continuation that
\* is ready and the store answers every request; nothing makes the token
\* endpoint or the search endpoint answer.
NextSingle ==
  \/ \E d \in {l \in DamageItemLists : Len(l) = 1}, l \in LaborTiers :
        calls < MaxCalls /\ BuildEstimate(d, l)
  \/ Step

Fairness ==
  /\ WF_vars(\E i \in 1..MaxItems, fault \in BOOLEAN : CacheLookupResponse(i, fault))
  /\ WF_vars(\E i \in 1..MaxItems, fault \in BOOLEAN : UpsertResponse(i, fault))
  /\ WF_vars(Return)
  /\ WF_vars(Respond)

SpecSingle == Init /\ [][NextSingle]_vars /\ Fairness

----------------------------------------------------------------------------
(* The price summary of searchEbayParts as a function of the listings the  *)
(* marketplace returns                                                     *)

MaxListings == 4

UrlPool == <<"itm/1", "itm/2", "itm/3", "itm/4", "itm/5", "itm/6">>

ListingPrices == {1000, 2000, 3050}

Matches == {"EXACT", "COMPATIBLE", "INEXACT"}

ItemSummaryLists ==
  UNION {{[i \in 1..n |-> summary(ps[i], ms[i], UrlPool[i])] :
            ps \in [1..n -> ListingPrices], ms \in [1..n -> Matches]} :
         n \in 0..MaxListings}

InitSummarize ==
  /\ Boot
  /\ credentials = TRUE
  /\ version = "repair-costs.ts"
  /\ inspected = [year |-> 2019, make |-> "Toyota", model |-> "Accord"]
  /\ trial \in {[op |-> "summarize", input |-> l, output |-> None] : l \in ItemSummaryLists}

ApplySummarize ==
  /\ trial.op = "summarize"
  /\ trial.output = None
  /\ trial' = [trial EXCEPT !.output = Some(summarize(trial.input))]
  /\ UNCHANGED <<now, credentials, version, inspected, cachedToken, cache, call, tasks,
                 output, calls, storeFaulted, market, reportVars>>

SpecSummarize == InitSummarize /\ [][ApplySummarize]_vars

----------------------------------------------------------------------------
(* The cache key of getPartPrice as a function of its arguments            *)

KeyParts == {"Side Mirror", "Side  Mirror", "side_mirror", "hood"}

KeyYears == {2019, 2020}

KeyMakes == {"Land Rover", "LAND  ROVER", "land rover", "BMW"}

KeyModels == {"Accord", "ACCORD", "civic"}

KeyTrims == {"", "EX"}

\* the arguments of one getPartPrice call
Requests ==
  {[partName |-> p, year |-> y, make |-> m, model |-> o, trim |-> t] :
     p \in KeyParts, y \in KeyYears, m \in KeyMakes, o \in KeyModels, t \in KeyTrims}

\* const cacheKey = buildCacheKey(partName, year, make, model)
cacheKeyOf(request) ==
  buildCacheKey(request.partName,
                [year |-> request.year, make |-> request.make, model |-> request.model])

InitKeys ==
  /\ Boot
  /\ credentials = TRUE
  /\ version = "repair-costs.ts"
  /\ inspected = [year |-> 2019, make |-> "Toyota", model |-> "Accord"]
  /\ trial \in {[op |-> "keys", input |-> <<a, b>>, output |-> None] :
                  a \in Requests, b \in Requests}

ApplyKeys ==
  /\ trial.op = "keys"
  /\ trial.output = None
  /\ trial' = [trial EXCEPT !.output =
                 Some(<<cacheKeyOf(trial.input[1]), cacheKeyOf(trial.input[2])>>)]
  /\ UNCHANGED <<now, credentials, version, inspected, cachedToken, cache, call, tasks,
                 output, calls, storeFaulted, market, reportVars>>

SpecKeys == InitKeys /\ [][ApplyKeys]_vars

----------------------------------------------------------------------------
(* One statically priced line item as a function of the make               *)

\* every part of the two part tables and two parts they do not list; every
\* damage type of the mapping and one it does not list
WideObservations ==
  {observation("crack", "severe", TRUE, p) :
      p \in DOMAIN STATIC_PART_PRICES \cup DOMAIN INSTALLATION_LABOR
             \cup {"Side Mirror", "exotic_spoiler"}}
  \cup
  {observation(d, s, FALSE, "") :
      d \in DOMAIN mapping \cup {"hole"}, s \in {"minor", "moderate", "severe"}}

WideLaborTiers == {"low", "medium", "high", "standard"}

\* makes by the tier the tier table gives them; "Saturn" is not listed
EconomyMakes == {"kia", "fiat"}

MainstreamMakes == {"Toyota", "Saturn"}

LuxuryMakes == {"BMW", "lexus"}

\* the line item of one observation when getPartPrice answers from the
\* static table
staticEstimate(item, someVehicle, laborRateTier, copy) ==
  IF isReplacement(item)
  THEN replacementLineItem(item, staticQuote(item.part_name, someVehicle),
                           someVehicle.make, laborRateTier, copy)
  ELSE repairLineItem(item, someVehicle.make, laborRateTier, copy)

accord(make) == [year |-> 2019, make |-> make, model |-> "Accord"]

InitTiers ==
  /\ Boot
  /\ credentials = TRUE
  /\ version \in Versions
  /\ inspected = accord("Toyota")
  /\ trial \in {[op |-> "tiers",
                  input |-> [item |-> withId(o, "a"), laborRateTier |-> l,
                             economy |-> e, mainstream |-> m, luxury |-> x],
                  output |-> None] :
                 o \in WideObservations, l \in WideLaborTiers,
                 e \in EconomyMakes, m \in MainstreamMakes, x \in LuxuryMakes}

ApplyTiers ==
  /\ trial.op = "tiers"
  /\ trial.output = None
  /\ LET in == trial.input
         estimate(make) == staticEstimate(in.item, accord(make), in.laborRateTier, version)
     IN  trial' = [trial EXCEPT !.output =
                     Some([economy |-> estimate(in.economy),
                           mainstream |-> estimate(in.mainstream),
                           luxury |-> estimate(in.luxury)])]
  /\ UNCHANGED <<now, credentials, version, inspected, cachedToken, cache, call, tasks,
                 output, calls, storeFaulted, market, reportVars>>

SpecTiers == InitTiers /\ [][ApplyTiers]_vars

----------------------------------------------------------------------------
(* The repair-only path over every damage type and severity it can be      *)
(* handed                                                                  *)

\* the damage types of the detection prompt
DetectionEnum ==
  { "scratch", "deep_scratch", "dent_small", "dent_large", "paint_chip", "paint_fade",
    "clear_coat_peel", "rust_spot", "rust_heavy", "crack", "hole", "tear", "stain",
    "burn", "curb_rash", "broken", "missing", "foggy", "discolored" }

\* the detection is parsed and handed on unvalidated: any string can arrive
DamageTypes == DetectionEnum \cup {"shattered", "constructor"}

Severities == {"minor", "moderate", "severe", "catastrophic", "", "constructor"}

InitRepair ==
  /\ Boot
  /\ credentials = TRUE
  /\ version \in Versions
  /\ inspected = accord("Toyota")
  /\ trial \in {[op |-> "repair",
                  input |-> [item |-> withId(observation(d, s, FALSE, ""), "a"),
                             make |-> m, laborRateTier |-> l],
                  output |-> None] :
                 d \in DamageTypes, s \in Severities, m \in Makes, l \in LaborTiers}

\* the repair-only branch of buildEstimate for one observation; estimate is
\* None when the branch throws: getCleaningProductLink calls toLowerCase on
\* the repair type, which a function value does not have
ApplyRepair ==
  /\ trial.op = "repair"
  /\ trial.output = None
  /\ LET in == trial.input
         repairType == getRepairType(in.item.damage_type, in.item.severity)
     IN  trial' = [trial EXCEPT !.output =
                     Some([repairType |-> repairType,
                           estimate |->
                             IF repairType = NativeFunction
                             THEN None
                             ELSE Some(repairLineItem(in.item, in.make, in.laborRateTier,
                                                      version))])]
  /\ UNCHANGED <<now, credentials, version, inspected, cachedToken, cache, call, tasks,
                 output, calls, storeFaulted, market, reportVars>>

SpecRepair == InitRepair /\ [][ApplyRepair]_vars

----------------------------------------------------------------------------
(* The analyze route after buildEstimate has returned, and the report page *)
(* of the stored inspection                                                *)

\* items.reduce((sum, item) => sum + item[field], 0)
RECURSIVE reduceSum(_, _)
reduceSum(list, field) ==
  IF Len(list) = 0 THEN 0 ELSE list[1][field] + reduceSum(Tail(list), field)

\* what a dealer can type into a cost field, in cents; parseFloat(...) || 0
\* turns an empty or unreadable field into 0
EditedCosts == {0, 12300}

\* the totals the report page shows
reportTotal(field) ==
  LET necessaryItems == SelectSeq(items, LAMBDA item : item.severity \in {"moderate", "severe"})
      optionalItems == SelectSeq(items, LAMBDA item : item.severity = "minor")
      includedNecessary == SelectSeq(necessaryItems, LAMBDA item : item.is_included)
      includedOptional == SelectSeq(optionalItems, LAMBDA item : item.is_included)
  IN  reduceSum(includedNecessary, field) + reduceSum(includedOptional, field)

InitReport ==
  /\ Boot
  /\ credentials = FALSE
  /\ version \in Versions
  /\ inspected \in Vehicles
  /\ trial = NoTrial

\* POST of the analyze route from the estimate on: the totals, the inspection
\* row and the estimate items.  The parts are priced from the static table,
\* as buildEstimate does without marketplace credentials.
Analyze(damageItems, laborRateTier) ==
  /\ inspection = None
  /\ LET estimateItems == [i \in 1..Len(damageItems) |->
                             staticEstimate(damageItems[i], inspected, laborRateTier, version)]
         totalLow == reduceSum(estimateItems, "cost_low")
         totalHigh == reduceSum(estimateItems, "cost_high")
     IN  /\ inspection' = Some([total_cost_low |-> totalLow, total_cost_high |-> totalHigh])
         /\ estimate_items' = estimateItems
  /\ UNCHANGED <<now, credentials, version, inspected, cachedToken, cache, call, tasks,
                 output, calls, storeFaulted, market, trial, items>>

\* the report page reads the rows of the inspection
loadInspection ==
  /\ inspection # None
  /\ items # estimate_items
  /\ items' = estimate_items
  /\ UNCHANGED <<now, credentials, version, inspected, cachedToken, cache, call, tasks,
                 output, calls, storeFaulted, market, trial, inspection, estimate_items>>

\* the checkbox of the item shown at position k; error is the answer of the store
toggleItem(k, error) ==
  /\ k \in DOMAIN items
  /\ LET itemId == items[k].id
         wasIncluded == items[k].is_included
         toggled(list) == [n \in DOMAIN list |->
                             IF list[n].id = itemId
                             THEN [list[n] EXCEPT !.is_included = ~wasIncluded]
                             ELSE list[n]]
     IN  /\ estimate_items' = IF error THEN estimate_items ELSE toggled(estimate_items)
         /\ items' = IF error THEN items ELSE toggled(items)
  /\ storeFaulted' = (storeFaulted \/ error)
  /\ UNCHANGED <<now, credentials, version, inspected, cachedToken, cache, call, tasks,
                 output, calls, market, trial, inspection>>

\* one of the two cost fields of the item shown at position k is edited
updateItemCost(k, costLow, costHigh, error) ==
  /\ k \in DOMAIN items
  /\ costLow = items[k].cost_low \/ costHigh = items[k].cost_high
  /\ LET itemId == items[k].id
         updated(list) == [n \in DOMAIN list |->
                             IF list[n].id = itemId
                             THEN [list[n] EXCEPT !.cost_low = costLow, !.cost_high = costHigh]
                             ELSE list[n]]
     IN  /\ estimate_items' = IF error THEN estimate_items ELSE updated(estimate_items)
         /\ items' = IF error THEN items ELSE updated(items)
  /\ storeFaulted' = (storeFaulted \/ error)
  /\ UNCHANGED <<now, credentials, version, inspected, cachedToken, cache, call, tasks,
                 output, calls, market, trial, inspection>>

NextReport ==
  \/ \E d \in DamageItemLists, l \in LaborTiers : Analyze(d, l)
  \/ loadInspection
  \/ \E k \in 1..MaxItems, error \in BOOLEAN : toggleItem(k, error)
  \/ \E k \in 1..MaxItems, low, high \in EditedCosts, error \in BOOLEAN :
       \/ updateItemCost(k, low, items[k].cost_high, error)
       \/ updateItemCost(k, items[k].cost_low, high, error)

SpecReport == InitReport /\ [][NextReport]_vars

----------------------------------------------------------------------------
(* The tier of a make and the two multipliers as functions of their input  *)

\* the multi-word makes of the tier table as a VIN decoder or a dealer
\* writes them
SpelledMakes ==
  { "Land Rover", "LAND  ROVER", "land rover", "Range Rover", "RANGE ROVER", "range rover",
    "Alfa Romeo", "Rolls Royce", "ROLLS ROYCE", "Aston Martin", "Mercedes-Benz" }

\* every key of the tier table, the spelled makes, a capitalized and an
\* upper-case listed make, makes the table does not list
TierMakes == DOMAIN TIER_MAP \cup SpelledMakes \cup {"Nissan", "BMW", "Saturn", ""}

LaborRateInputs == {"low", "medium", "high", "standard", ""}

InitMakes ==
  /\ Boot
  /\ credentials = TRUE
  /\ version = "repair-costs.ts"
  /\ inspected = accord("Toyota")
  /\ trial \in {[op |-> "makes", input |-> [make |-> m, laborRateTier |-> l],
                  output |-> None] : m \in TierMakes, l \in LaborRateInputs}

ApplyMakes ==
  /\ trial.op = "makes"
  /\ trial.output = None
  /\ trial' = [trial EXCEPT !.output =
                 Some([tier |-> getVehicleTier(trial.input.make),
                       tierMultiplier |-> getTierMultiplier(trial.input.make),
                       laborMultiplier |-> getLaborRateMultiplier(trial.input.laborRateTier)])]
  /\ UNCHANGED <<now, credentials, version, inspected, cachedToken, cache, call, tasks,
                 output, calls, storeFaulted, market, reportVars>>

SpecMakes == InitMakes /\ [][ApplyMakes]_vars

----------------------------------------------------------------------------
(* Properties                                                              *)

Range(s) == {s[k] : k \in DOMAIN s}

\* r is n / d rounded to the nearest integer, halves upwards
IsRounded(r, n, d) == 2 * d * r - d <= 2 * n /\ 2 * n < 2 * d * r + d

\* an amount of cents that is the whole-dollar rounding of n hundredths of a dollar
RoundedCents(c, n) == c % 100 = 0 /\ IsRounded(c \div 100, n, 100)

\* the positions of the listings marked EXACT or COMPATIBLE
Qualifying(s) ==
  {k \in DOMAIN s : s[k].compatibilityMatch = "EXACT" \/ s[k].compatibilityMatch = "COMPATIBLE"}

\* m is the price at position r (from 0) of the prices at positions q put in
\* ascending order
AtRank(s, q, r, m) ==
  /\ \E k \in q : s[k].price = m
  /\ Cardinality({k \in q : s[k].price < m}) <= r
  /\ r < Cardinality({k \in q : s[k].price <= m})

(* C1: buildEstimate returns exactly one line item per observation: the     *)
(* output is as long as the input (the empty list included) and each input *)
(* id is on exactly one output item, whatever the cache and the            *)
(* marketplace answered.                                                   *)
C1_OneLineItemPerObservation ==
  output # None =>
    /\ Len(output[1]) = Len(call.damageItems)
    /\ \A j \in DOMAIN call.damageItems :
         Cardinality({k \in DOMAIN output[1] :
                        output[1][k].id = call.damageItems[j].id}) = 1

\* two observations, one priced by the marketplace while the store failed and
\* one priced statically after the token request failed
C1_Witness ==
  /\ output # None
  /\ Len(output[1]) = 2
  /\ storeFaulted
  /\ \E i, j \in DOMAIN tasks :
       /\ tasks[i].tokenError # ""
       /\ output[1][i].pricing_source = "static"
       /\ output[1][j].pricing_source = "ebay"

(* C2: every line item buildEstimate returns, on the replacement path and  *)
(* on the repair-only path and for a quote from the cache, the marketplace *)
(* or the static table, has cost_low = parts_cost_low + labor_cost_low,    *)
(* cost_high = parts_cost_high + labor_cost_high and cost_low <= cost_high.*)
C2_CostsAddUp ==
  output # None =>
    \A k \in DOMAIN output[1] :
      LET e == output[1][k]
      IN  /\ e.cost_low = e.parts_cost_low + e.labor_cost_low
          /\ e.cost_high = e.parts_cost_high + e.labor_cost_high
          /\ e.cost_low <= e.cost_high

\* an estimate with one item priced by the marketplace and one by the cache
C2_Witness ==
  /\ output # None
  /\ \E i, j \in DOMAIN tasks :
       /\ tasks[i].wrote
       /\ tasks[j].cached # None
       /\ output[1][j].pricing_source = "ebay"
       /\ output[1][j].cost_low < output[1][j].cost_high

(* C3: every line item has is_included = TRUE when the severity of its     *)
(* observation is moderate or severe and is_included = FALSE when it is    *)
(* minor, on both paths.                                                   *)
C3_IncludedUnlessMinor ==
  output # None =>
    \A k \in DOMAIN output[1] :
      output[1][k].is_included = (call.damageItems[k].severity # "minor")

(* C4: once getPartPrice has resolved a part and vehicle from the          *)
(* marketplace, a later call for the same part and vehicle made less than  *)
(* 7 days after it makes no marketplace search and returns the same        *)
(* source, prices and purchase link (the store itself answering without    *)
(* fault).                                                                 *)
C4_RepeatWithinTtl ==
  ~storeFaulted =>
    \A g \in market : \A i \in DOMAIN tasks :
      LET item == call.damageItems[i]
      IN  (/\ g.call < calls
           /\ isReplacement(item)
           /\ buildCacheKey(item.part_name, inspected) = g.key
           /\ tasks[i].at < g.at + CacheTtlMs)
          => /\ "marketplace" \notin Range(tasks[i].tiers)
             /\ tasks[i].pc = "done" => tasks[i].partPrice[1] = g.partPrice

\* the resolution ended without a quote the marketplace vouches for
noValidQuote(t) ==
  \/ t.tokenError # ""
  \/ /\ t.response # None
     /\ \/ t.response[1].kind # "ok"
        \/ Cardinality(Qualifying(t.response[1].itemSummaries)) < 3

(* C5: within one getPartPrice resolution the tiers are tried in the order *)
(* cache, marketplace, static table: the marketplace is asked only after   *)
(* the cache lookup found no live entry, the static table is used only     *)
(* after the marketplace gave no valid quote, and a live cache entry is    *)
(* returned without any marketplace call.                                  *)
C5_CacheThenMarketplaceThenStatic ==
  \A i \in DOMAIN tasks :
    LET t == tasks[i]
    IN  /\ t.tiers \in {<<>>, <<"cache">>, <<"cache", "marketplace">>,
                        <<"cache", "marketplace", "static">>}
        /\ "marketplace" \in Range(t.tiers) => t.cached = None
        /\ t.cached # None =>
             /\ t.pc = "done"
             /\ t.tiers = <<"cache">>
             /\ t.response = None
             /\ t.partPrice[1].source = t.cached[1].source
             /\ t.partPrice[1].price_low = t.cached[1].price_low
             /\ t.partPrice[1].price_median = t.cached[1].price_median
             /\ t.partPrice[1].price_high = t.cached[1].price_high
        /\ "static" \in Range(t.tiers) => noValidQuote(t)

\* one task was answered from the row another task of the call had stored
C5_Witness ==
  \E i, j \in DOMAIN tasks :
    /\ tasks[i].tiers = <<"cache", "marketplace">>
    /\ tasks[i].wrote
    /\ tasks[j].cached # None
    /\ tasks[j].pc = "done"
    /\ tasks[j].tiers = <<"cache">>

\* the marketplace failed the resolution: no token, or a search that failed
\* on the network, answered outside 2xx or listed nothing
marketplaceFailed(t) ==
  \/ t.tokenError # ""
  \/ /\ t.response # None
     /\ \/ t.response[1].kind # "ok"
        \/ t.response[1].itemSummaries = <<>>

(* C6: getPartPrice never ends in an error because of the marketplace: a   *)
(* failed token request, missing credentials, a search that fails on the   *)
(* network, answers outside 2xx or returns no listings all end the         *)
(* resolution with the static quote.                                       *)
C6_MarketplaceFailureIsStatic ==
  \A i \in DOMAIN tasks :
    LET t == tasks[i]
    IN  /\ t.pc \in {"lookup", "token", "search", "upsert", "done"}
        /\ marketplaceFailed(t) =>
             /\ t.pc = "done"
             /\ t.partPrice # None
             /\ t.partPrice[1].source = "static"
             /\ t.result # None
             /\ t.result[1].pricing_source = "static"

\* one resolution lost its token request, the other its search request
C6_Witness ==
  \E i, j \in DOMAIN tasks :
    /\ tasks[i].tokenError = "http_error"
    /\ tasks[i].partPrice # None
    /\ tasks[j].response # None
    /\ tasks[j].response[1].kind = "network_error"
    /\ tasks[j].partPrice # None
    /\ tasks[j].partPrice[1].source = "static"

(* C7: a search becomes a quote only when at least 3 of its listings are   *)
(* marked EXACT or COMPATIBLE, and only those listings enter the price     *)
(* summary; with fewer than 3 getPartPrice returns the static quote and    *)
(* writes nothing to the cache.                                            *)
C7_ThreeQualifyingListings ==
  /\ \A r \in cache : r.raw_data.results_count >= 3
  /\ \A i \in DOMAIN tasks :
       LET t == tasks[i]
       IN  (t.response # None /\ t.response[1].kind = "ok") =>
             LET s == t.response[1].itemSummaries
                 q == Qualifying(s)
                 kept == {s[k].price : k \in q}
             IN  IF Cardinality(q) >= 3
                 THEN LET quote == IF t.pc = "upsert" THEN t.pending[1] ELSE t.partPrice[1]
                      IN  /\ quote.source = "ebay"
                          /\ quote.price_low \in kept
                          /\ quote.price_median \in kept
                          /\ quote.price_high \in kept
                          /\ \A x \in kept : quote.price_low <= x /\ x <= quote.price_high
                          /\ t.pc = "upsert" => t.pending[1].raw_data.results_count = Cardinality(q)
                 ELSE /\ t.pc = "done"
                      /\ t.partPrice[1].source = "static"
                      /\ t.pending = None
                      /\ ~t.wrote

\* four qualifying listings beside a cheaper one that does not qualify were
\* stored as a quote, and two qualifying listings among four were not
C7_Witness ==
  \E i, j \in DOMAIN tasks :
    /\ tasks[i].response # None
    /\ tasks[i].response[1].itemSummaries = FourListings
    /\ tasks[i].wrote
    /\ tasks[i].partPrice[1].price_low = 5000
    /\ tasks[j].response # None
    /\ tasks[j].response[1].itemSummaries = TwoListings
    /\ tasks[j].pc = "done"

\* the summary of one search: low and high are the least and the greatest
\* qualifying price and the median is the sorted price at position r
summaryWithMedianAt(s, result, r) ==
  LET q == Qualifying(s)
  IN  /\ result # None
      /\ \E k \in q : s[k].price = result[1].price_low
      /\ \E k \in q : s[k].price = result[1].price_high
      /\ \A k \in q : result[1].price_low <= s[k].price /\ s[k].price <= result[1].price_high
      /\ AtRank(s, q, r, result[1].price_median)
      /\ result[1].price_low <= result[1].price_median
      /\ result[1].price_median <= result[1].price_high

lowerMiddle(n) == (n - 1) \div 2

upperMiddle(n) == n \div 2

(* C8, as stated: for every non-empty set of qualifying listings the       *)
(* summary has price_low = the least price, price_high = the greatest and  *)
(* price_median = the middle of the sorted prices, the lower of the two    *)
(* middle ones when their number is even; low <= median <= high.           *)
C8_LowerMiddleMedian ==
  (trial.op = "summarize" /\ trial.output # None /\ Qualifying(trial.input) # {}) =>
    summaryWithMedianAt(trial.input, trial.output[1],
                        lowerMiddle(Cardinality(Qualifying(trial.input))))

(* C8, amended: as above, but the median is the sorted price at position   *)
(* floor(n / 2) counted from 0, which is the upper of the two middle ones  *)
(* when the number of qualifying listings is even.                         *)
C8_UpperMiddleMedian ==
  (trial.op = "summarize" /\ trial.output # None /\ Qualifying(trial.input) # {}) =>
    summaryWithMedianAt(trial.input, trial.output[1],
                        upperMiddle(Cardinality(Qualifying(trial.input))))

\* four qualifying listings whose two middle prices differ
C8_Witness ==
  /\ trial.op = "summarize"
  /\ trial.output # None
  /\ Cardinality(Qualifying(trial.input)) = 4
  /\ trial.output[1] # None
  /\ LET s == trial.input
         m == trial.output[1][1].price_median
     IN  /\ AtRank(s, Qualifying(s), 2, m)
         /\ ~AtRank(s, Qualifying(s), 1, m)

\* the parts range of a statically priced replacement: the static price
\* times the tier multiplier, rounded, and some dollars of materials on top
staticPartsRange(e, item, extraLow, extraHigh) ==
  LET static == getStaticPartPrice(item.part_name)
      m == getTierMultiplier(inspected.make)
  IN  /\ e.pricing_source = "static"
      /\ RoundedCents(e.parts_cost_low - 100 * extraLow, static.price_low * m)
      /\ RoundedCents(e.parts_cost_high - 100 * extraHigh, static.price_high * m)

(* C9, as stated: when the marketplace gives no result on any call and the *)
(* cache starts empty, every replacement line item has pricing_source      *)
(* "static" and a parts range equal to the static price of its part times  *)
(* the tier multiplier, rounded, for every part, paintable panels          *)
(* included.                                                               *)
C9_StaticTimesTier ==
  (output # None /\ cache = {} /\ market = {}) =>
    \A k \in DOMAIN output[1] :
      isReplacement(call.damageItems[k]) =>
        staticPartsRange(output[1][k], call.damageItems[k], 0, 0)

(* C9, amended: as above for every part that is not a paintable panel; for *)
(* a paintable panel the parts range is that rounded product plus the      *)
(* materials of a full panel respray.                                      *)
C9_StaticTimesTierPlusPaint ==
  (output # None /\ cache = {} /\ market = {}) =>
    \A k \in DOMAIN output[1] :
      LET item == call.damageItems[k]
          paint(field) == IF normalizePart(item.part_name) \in paintableParts
                          THEN REPAIR_COSTS["full_panel_respray"][field] ELSE 0
      IN  isReplacement(item) =>
            staticPartsRange(output[1][k], item, paint("materials_low"), paint("materials_high"))

\* an economy make, a paintable panel and a part no table lists, each after
\* a search that listed nothing
C9_Witness ==
  /\ output # None
  /\ cache = {}
  /\ market = {}
  /\ inspected.make = "kia"
  /\ \E i, j \in DOMAIN tasks :
       /\ call.damageItems[i].part_name = "front_bumper_cover"
       /\ call.damageItems[j].part_name = "exotic_spoiler"
       /\ tasks[i].response # None
       /\ tasks[j].response # None
       /\ output[1][i].pricing_source = "static"

CostFields ==
  {"parts_cost_low", "parts_cost_high", "labor_cost_low", "labor_cost_high",
   "cost_low", "cost_high"}

(* C10: for the same observation and labor tier, priced statically, each   *)
(* of the six cost fields computed for a luxury make is >= the one for a   *)
(* mainstream make, which is >= the one for an economy make.               *)
C10_TierMonotonicity ==
  (/\ trial.op = "tiers"
   /\ trial.output # None
   /\ getVehicleTier(trial.input.economy) = "economy"
   /\ getVehicleTier(trial.input.mainstream) = "mainstream"
   /\ getVehicleTier(trial.input.luxury) = "luxury") =>
    \A f \in CostFields :
      /\ trial.output[1].luxury[f] >= trial.output[1].mainstream[f]
      /\ trial.output[1].mainstream[f] >= trial.output[1].economy[f]

\* a replacement for which parts and labor both grow strictly with the
\* tier, the mainstream make being one the tier table does not list
C10_Witness ==
  /\ trial.op = "tiers"
  /\ trial.output # None
  /\ trial.input.mainstream = "Saturn"
  /\ trial.input.luxury = "lexus"
  /\ isReplacement(trial.input.item)
  /\ trial.output[1].luxury.parts_cost_low > trial.output[1].mainstream.parts_cost_low
  /\ trial.output[1].mainstream.parts_cost_low > trial.output[1].economy.parts_cost_low
  /\ trial.output[1].luxury.labor_cost_high > trial.output[1].mainstream.labor_cost_high
  /\ trial.output[1].mainstream.labor_cost_high > trial.output[1].economy.labor_cost_high

\* dollars of labor times both multipliers (hundredths), rounded, as cents
laborCents(dollars, make, laborRateTier) ==
  100 * ((dollars * getTierMultiplier(make) * getLaborRateMultiplier(laborRateTier) + 5000)
           \div 10000)

\* the installation labor of a part, in dollars before multipliers
installDollars(partName) ==
  IF normalizePart(partName) \in DOMAIN INSTALLATION_LABOR
  THEN INSTALLATION_LABOR[normalizePart(partName)]
  ELSE [labor_low |-> 100, labor_high |-> 250]

\* what the paint of a replaced panel adds, in dollars before multipliers
paintDollars(partName) ==
  IF normalizePart(partName) \in paintableParts
  THEN REPAIR_COSTS["full_panel_respray"]
  ELSE [labor_low |-> 0, labor_high |-> 0, materials_low |-> 0, materials_high |-> 0]

(* C11: on the replacement path the tier multiplier scales the part price  *)
(* only when the quote's source is "static"; a marketplace quote, fresh or *)
(* from the cache, reaches the line item unscaled for every make (beside   *)
(* the paint materials of a paintable panel).  Installation labor is       *)
(* scaled by the tier and the labor-rate multiplier in every case.         *)
C11_OnlyStaticPartsScaled ==
  \A i \in DOMAIN tasks :
    LET t == tasks[i]
        item == call.damageItems[i]
    IN  (isReplacement(item) /\ t.pc = "done") =>
          LET e == t.result[1]
              quote == t.partPrice[1]
              paint == paintDollars(item.part_name)
              install == installDollars(item.part_name)
              make == inspected.make
              tier == call.laborRateTier
          IN  /\ e.pricing_source = quote.source
              /\ quote.source # "static" =>
                   /\ e.parts_cost_low = quote.price_low + 100 * paint.materials_low
                   /\ e.parts_cost_high = quote.price_high + 100 * paint.materials_high
              /\ quote.source = "static" =>
                   /\ RoundedCents(e.parts_cost_low - 100 * paint.materials_low,
                                   (quote.price_low \div 100) * getTierMultiplier(make))
                   /\ RoundedCents(e.parts_cost_high - 100 * paint.materials_high,
                                   (quote.price_high \div 100) * getTierMultiplier(make))
              /\ e.labor_cost_low = laborCents(install.labor_low, make, tier)
                                      + laborCents(paint.labor_low, make, tier)
              /\ e.labor_cost_high = laborCents(install.labor_high, make, tier)
                                       + laborCents(paint.labor_high, make, tier)

\* on a luxury make, one mirror priced by the marketplace and one by the
\* cache, both unscaled
C11_Witness ==
  /\ inspected.make = "BMW"
  /\ call.laborRateTier = "high"
  /\ \E i, j \in DOMAIN tasks :
       /\ call.damageItems[i].part_name = "Side Mirror"
       /\ tasks[i].wrote
       /\ tasks[i].pc = "done"
       /\ tasks[i].result[1].parts_cost_low = tasks[i].partPrice[1].price_low
       /\ tasks[j].cached # None
       /\ tasks[j].result[1].pricing_source = "ebay"
       /\ tasks[j].result[1].parts_cost_high = tasks[j].cached[1].price_high

\* the line item e prices the operation `operation` for this make and labor
\* tier: labor scaled by both multipliers and rounded, materials as listed
repairPriced(e, operation, make, laborRateTier) ==
  /\ e.recommended_repair = <<REPAIR_COSTS[operation].description>>
  /\ e.labor_cost_low = laborCents(REPAIR_COSTS[operation].labor_low, make, laborRateTier)
  /\ e.labor_cost_high = laborCents(REPAIR_COSTS[operation].labor_high, make, laborRateTier)
  /\ e.parts_cost_low = 100 * REPAIR_COSTS[operation].materials_low
  /\ e.parts_cost_high = 100 * REPAIR_COSTS[operation].materials_high
  /\ e.pricing_source = "static"

\* the four amounts of a line item, in cents
amounts(e) == <<e.labor_cost_low, e.labor_cost_high, e.parts_cost_low, e.parts_cost_high>>

(* C12: on the repair-only path labor_cost_low/high is the base labor of   *)
(* the mapped operation times the tier multiplier times the labor-rate     *)
(* multiplier, rounded, and parts_cost_low/high is the operation's         *)
(* materials, unscaled.  dent_small/minor on a mainstream make at medium   *)
(* labor is pdr_small with labor [75,150] and parts [0,0]; scratch/severe  *)
(* on a luxury make at high labor is full_panel_respray with labor         *)
(* [416,936] and parts [60,150].                                           *)
C12_RepairOnlyPricing ==
  (trial.op = "tiers" /\ trial.output # None /\ ~isReplacement(trial.input.item)) =>
    LET in == trial.input
        out == trial.output[1]
        operation == getRepairType(in.item.damage_type, in.item.severity)
    IN  /\ operation \in DOMAIN REPAIR_COSTS
        /\ repairPriced(out.economy, operation, in.economy, in.laborRateTier)
        /\ repairPriced(out.mainstream, operation, in.mainstream, in.laborRateTier)
        /\ repairPriced(out.luxury, operation, in.luxury, in.laborRateTier)
        /\ (in.item.damage_type = "dent_small" /\ in.item.severity = "minor"
              /\ in.laborRateTier = "medium") =>
             /\ operation = "pdr_small"
             /\ amounts(out.mainstream) = <<7500, 15000, 0, 0>>
        /\ (in.item.damage_type = "scratch" /\ in.item.severity = "severe"
              /\ in.laborRateTier = "high") =>
             /\ operation = "full_panel_respray"
             /\ amounts(out.luxury) = <<41600, 93600, 6000, 15000>>

\* scenario 2 of the specification, computed
C12_Witness ==
  /\ trial.op = "tiers"
  /\ trial.output # None
  /\ ~isReplacement(trial.input.item)
  /\ trial.input.item.damage_type = "scratch"
  /\ trial.input.item.severity = "severe"
  /\ trial.input.laborRateTier = "high"
  /\ trial.output[1].luxury.labor_cost_low = 41600
  /\ trial.output[1].economy.labor_cost_low < 41600

(* C13: when several concurrent resolutions find the token absent or stale *)
(* at the same time, exactly one token request is sent: at no instant are  *)
(* two token requests in flight.                                           *)
C13_SingleTokenRequest ==
  Cardinality({i \in DOMAIN tasks : tasks[i].pc = "token"}) <= 1

\* no token is cached, or the cached one expires within the next 60 seconds
absentOrStale == cachedToken = None \/ cachedToken[1].expires_at - now <= 60000

\* what getEbayAccessToken does in one step of task i
tokenStep(i) ==
  /\ (tasks[i].pc = "lookup" /\ tasks'[i].pc = "token") => absentOrStale
  /\ (tasks[i].pc = "lookup" /\ tasks'[i].pc = "search") =>
       /\ ~absentOrStale
       /\ tasks'[i].token = <<cachedToken[1].access_token>>
       /\ cachedToken' = cachedToken
  /\ (tasks[i].pc = "lookup" /\ "marketplace" \in Range(tasks'[i].tiers)) =>
       IF absentOrStale
       THEN tasks'[i].pc = "token" \/ (~credentials /\ tasks'[i].tokenError = "no_credentials")
       ELSE tasks'[i].pc = "search"
  /\ (tasks[i].pc = "token" /\ tasks'[i].pc = "search") =>
       /\ cachedToken' # None
       /\ tasks'[i].token = <<cachedToken'[1].access_token>>
       /\ \E e \in ExpiresIn : cachedToken'[1].expires_at = now + 1000 * e

(* C14: getEbayAccessToken sends a token request only when no token is     *)
(* cached or the cached one expires within the next 60 seconds; otherwise  *)
(* it returns the cached token without a request; after a successful       *)
(* request the cached token is the one received, expiring expires_in       *)
(* seconds after the instant the request completed.                        *)
C14_TokenRequestOnlyWhenStale ==
  [][call' = call => \A i \in DOMAIN tasks : tokenStep(i)]_vars

\* a token request in flight while the cached token is still valid but
\* inside the 60 second margin
C14_Witness ==
  /\ cachedToken # None
  /\ cachedToken[1].expires_at > now
  /\ cachedToken[1].expires_at <= now + 60000
  /\ \E i, j \in DOMAIN tasks :
       /\ tasks[i].pc = "token"
       /\ tasks[j].token # None

\* the call goes on: every task waits for an answer or is done, and once all
\* are done the call can return
batchGoesOn ==
  /\ \A i \in DOMAIN tasks : tasks[i].pc \in {"lookup", "token", "search", "upsert", "done"}
  /\ (call.phase = "running" /\ \A i \in DOMAIN tasks : tasks[i].pc = "done") => ENABLED Return
  /\ output # None =>
       /\ Len(output[1]) = Len(call.damageItems)
       /\ \A k \in DOMAIN output[1] :
            tasks[k].result # None /\ output[1][k] = tasks[k].result[1]

C16_EveryResolutionReturns ==
  \A i \in 1..MaxItems :
    (i \in DOMAIN tasks /\ tasks[i].pc \in {"token", "search"})
      ~> (i \in DOMAIN tasks /\ tasks[i].pc = "done")

\* the stored rows of the key of task i
rowsOf(i) ==
  {r \in cache : r.cache_key = buildCacheKey(call.damageItems[i].part_name, inspected)}

(* C17: a cache entry is written with expires_at = fetch time + 7 days and *)
(* is returned by the lookup only while the time of the lookup is strictly *)
(* before expires_at; an expired entry is treated as absent, the           *)
(* resolution going on to the marketplace, although the row is still       *)
(* stored.                                                                 *)
C17_EntriesLiveForSevenDays ==
  /\ \A r \in cache : r.expires_at = r.fetched_at + 7 * 24 * 60 * 60 * 1000
  /\ \A i \in DOMAIN tasks :
       LET t == tasks[i]
       IN  /\ t.cached # None =>
                /\ t.cached[1] \in rowsOf(i)
                /\ t.at < t.cached[1].expires_at
           /\ (isReplacement(call.damageItems[i]) /\ t.pc # "lookup"
                 /\ \A r \in rowsOf(i) : r.expires_at <= t.at) =>
                /\ t.cached = None
                /\ "marketplace" \in Range(t.tiers)

\* a lookup made at the very instant a stored row expires went on to the
\* marketplace, and the row is still stored
C17_Witness ==
  \E i \in DOMAIN tasks :
    /\ tasks[i].pc = "done"
    /\ ~tasks[i].storeError
    /\ tasks[i].cached = None
    /\ "marketplace" \in Range(tasks[i].tiers)
    /\ \E r \in rowsOf(i) : r.expires_at = tasks[i].at

\* the store answers the upsert of task i in this step
upsertAnswered(i) ==
  /\ call' = call
  /\ tasks[i].pc = "upsert"
  /\ tasks'[i].pc # "upsert"

(* C18: if the cache write after a valid marketplace quote fails,          *)
(* getPartPrice still returns that quote (source "ebay", the same low,     *)
(* median and high) and does not raise; the only effect is that the cache  *)
(* is left without the new entry.                                          *)
C18_WriteFailureKeepsQuote ==
  [][\A i \in DOMAIN tasks :
       upsertAnswered(i) =>
         /\ tasks'[i].pc = "done"
         /\ tasks'[i].partPrice # None
         /\ tasks'[i].partPrice[1].source = "ebay"
         /\ tasks'[i].partPrice[1].price_low = tasks[i].pending[1].raw_data.price_low
         /\ tasks'[i].partPrice[1].price_median = tasks[i].pending[1].raw_data.price_median
         /\ tasks'[i].partPrice[1].price_high = tasks[i].pending[1].raw_data.price_high
         /\ tasks'[i].result # None
         /\ tasks'[i].result[1].pricing_source = "ebay"
         /\ (~tasks[i].storeError /\ tasks'[i].storeError) =>
              /\ cache' = cache
              /\ ~tasks'[i].wrote
              /\ \A j \in DOMAIN tasks : j # i => tasks'[j] = tasks[j]
  ]_vars

\* a resolution returned the marketplace quote although its write failed,
\* and the cache holds no row for its key
C18_Witness ==
  \E i \in DOMAIN tasks :
    /\ tasks[i].pc = "done"
    /\ tasks[i].storeError
    /\ ~tasks[i].wrote
    /\ tasks[i].response # None
    /\ tasks[i].response[1].itemSummaries = FiveListings
    /\ tasks[i].partPrice[1].source = "ebay"
    /\ tasks[i].partPrice[1].price_median = 11000
    /\ rowsOf(i) = {}

\* a name with its letters in lower case and every run of whitespace as one
\* space: two names differ only in letter case or whitespace when they agree
\* under it
foldCaseAndSpace(s) ==
  CASE s \in {"Side Mirror", "Side  Mirror"} -> "side mirror"
    [] s \in {"Land Rover", "LAND  ROVER", "land rover"} -> "land rover"
    [] s \in {"Accord", "ACCORD"} -> "accord"
    [] s = "BMW" -> "bmw"
    [] OTHER -> s

\* the part, year, make and model of a request, case and whitespace folded
folded(request) ==
  <<foldCaseAndSpace(request.partName), request.year, foldCaseAndSpace(request.make),
    foldCaseAndSpace(request.model)>>

(* C19: the cache key is a function of part name, year, make and model     *)
(* only: two requests that differ only in trim, or only in the letter case *)
(* or whitespace of the part name, make or model, have the same key, and   *)
(* requests that differ in normalized part name, year, make or model have  *)
(* different keys.                                                         *)
C19_KeyIgnoresCaseAndSpace ==
  (trial.op = "keys" /\ trial.output # None) =>
    LET a == trial.input[1]
        b == trial.input[2]
        same == trial.output[1][1] = trial.output[1][2]
    IN  /\ folded(a) = folded(b) => same
        /\ (\/ normalizePart(a.partName) # normalizePart(b.partName)
            \/ a.year # b.year
            \/ foldCaseAndSpace(a.make) # foldCaseAndSpace(b.make)
            \/ foldCaseAndSpace(a.model) # foldCaseAndSpace(b.model)) => ~same

\* the line item e prices an unlisted part for this make and labor tier from
\* the generic defaults: parts 50 to 200 scaled by the tier, installation
\* labor 100 to 250 scaled by the tier and the labor rate
defaultPriced(e, make, laborRateTier) ==
  /\ e.pricing_source = "static"
  /\ RoundedCents(e.parts_cost_low, 50 * getTierMultiplier(make))
  /\ RoundedCents(e.parts_cost_high, 200 * getTierMultiplier(make))
  /\ e.labor_cost_low = laborCents(100, make, laborRateTier)
  /\ e.labor_cost_high = laborCents(250, make, laborRateTier)

(* C20: a replacement whose part name is in neither the static part price  *)
(* table nor the installation labor table (such as "exotic_spoiler") is    *)
(* priced without error from the generic defaults: parts 50 to 200 and     *)
(* installation labor 100 to 250 before multipliers.                       *)
C20_UnlistedPartDefaults ==
  (/\ trial.op = "tiers"
   /\ isReplacement(trial.input.item)
   /\ normalizePart(trial.input.item.part_name) \notin DOMAIN STATIC_PART_PRICES
   /\ normalizePart(trial.input.item.part_name) \notin DOMAIN INSTALLATION_LABOR
   /\ trial.output # None) =>
    LET in == trial.input
        out == trial.output[1]
    IN  /\ defaultPriced(out.economy, in.economy, in.laborRateTier)
        /\ defaultPriced(out.mainstream, in.mainstream, in.laborRateTier)
        /\ defaultPriced(out.luxury, in.luxury, in.laborRateTier)
        /\ in.laborRateTier = "medium" =>
             amounts(out.mainstream) = <<10000, 25000, 5000, 20000>>

\* scenario 4 of the specification, computed for the three tiers
C20_Witness ==
  /\ trial.op = "tiers"
  /\ trial.output # None
  /\ trial.input.item.part_name = "exotic_spoiler"
  /\ trial.input.laborRateTier = "medium"
  /\ trial.output[1].mainstream.parts_cost_low = 5000
  /\ trial.output[1].economy.parts_cost_low = 4300
  /\ trial.output[1].luxury.labor_cost_high = 40000

\* the (damage type, severity) pair of the observation is in the mapping
inMapping(item) ==
  /\ item.damage_type \in DOMAIN mapping
  /\ item.severity \in DOMAIN mapping[item.damage_type]

(* C21: getRepairType is total: for every damage type of the detection     *)
(* enum and every severity, and for any unknown damage type or severity,   *)
(* it returns a repair-operation id, spot_respray_small whenever the pair  *)
(* is not in the mapping; every id it returns is a key of the repair cost  *)
(* table, so a repair-only line item always has a non-empty recommended    *)
(* repair and a priced labor range.                                        *)
C21_RepairTypeTotal ==
  (trial.op = "repair" /\ trial.output # None) =>
    LET in == trial.input
        out == trial.output[1]
    IN  /\ out.repairType \in DOMAIN REPAIR_COSTS
        /\ ~inMapping(in.item) => out.repairType = "spot_respray_small"
        /\ out.estimate # None
        /\ out.estimate[1].recommended_repair # <<"">>
        /\ repairPriced(out.estimate[1], out.repairType, in.make, in.laborRateTier)

\* the body panels a replacement is painted for
Panels ==
  { "front_bumper_cover", "rear_bumper_cover", "fender", "hood",
    "trunk_lid", "door_shell", "quarter_panel", "rocker_panel" }

\* the line item e replaces the part of item on this make at this labor
\* rate from the static quote, with the respray added exactly when painted
replacedWithPaint(e, item, make, laborRateTier, painted) ==
  LET install == installDollars(item.part_name)
      respray == REPAIR_COSTS["full_panel_respray"]
      static == getStaticPartPrice(item.part_name)
      labor(d) == laborCents(d, make, laborRateTier)
  IN  /\ e.labor_cost_low =
           labor(install.labor_low) + (IF painted THEN labor(respray.labor_low) ELSE 0)
      /\ e.labor_cost_high =
           labor(install.labor_high) + (IF painted THEN labor(respray.labor_high) ELSE 0)
      /\ RoundedCents(e.parts_cost_low - (IF painted THEN 100 * respray.materials_low ELSE 0),
                      static.price_low * getTierMultiplier(make))
      /\ RoundedCents(e.parts_cost_high - (IF painted THEN 100 * respray.materials_high ELSE 0),
                      static.price_high * getTierMultiplier(make))
      /\ e.recommended_repair =
           <<"Replace ", item.part_name, IF painted THEN " + prime/paint" ELSE "">>

(* C22: on the replacement path, exactly when the normalized part name is  *)
(* one of the eight body panels, the labor additionally includes the       *)
(* full_panel_respray labor scaled by the tier and labor-rate multipliers, *)
(* the parts additionally include the full_panel_respray materials,        *)
(* unscaled, and the recommended repair is "Replace <part> + prime/paint"; *)
(* for every other part none of these is added.                            *)
C22_PaintExactlyForPanels ==
  (trial.op = "tiers" /\ trial.output # None /\ isReplacement(trial.input.item)) =>
    LET in == trial.input
        out == trial.output[1]
        painted == normalizePart(in.item.part_name) \in Panels
    IN  /\ replacedWithPaint(out.economy, in.item, in.economy, in.laborRateTier, painted)
        /\ replacedWithPaint(out.mainstream, in.item, in.mainstream, in.laborRateTier, painted)
        /\ replacedWithPaint(out.luxury, in.item, in.luxury, in.laborRateTier, painted)

\* a rocker panel on a luxury make at the high labor rate: the respray adds
\* 416 to 936 of labor and 60 to 150 of materials
C22_Witness ==
  /\ trial.op = "tiers"
  /\ trial.output # None
  /\ isReplacement(trial.input.item)
  /\ trial.input.item.part_name = "rocker_panel"
  /\ trial.input.laborRateTier = "high"
  /\ trial.output[1].luxury.recommended_repair = <<"Replace ", "rocker_panel", " + prime/paint">>
  /\ trial.output[1].luxury.labor_cost_low =
       laborCents(installDollars("rocker_panel").labor_low, trial.input.luxury, "high") + 41600
  /\ trial.output[1].luxury.parts_cost_low =
       roundParts(100 * getStaticPartPrice("rocker_panel").price_low, 160) + 6000

\* the qualifying listings of a search response, as price and URL
offered(s) == {[price |-> s[k].price, url |-> s[k].itemWebUrl] : k \in Qualifying(s)}

\* the sample listings of a stored or pending summary, as price and URL
sampled(ebayResult) ==
  {[price |-> l.price, url |-> l.itemUrl] : l \in Range(ebayResult.sample_listings)}

(* C23: for every valid marketplace quote the sample listings kept are the *)
(* (up to) 5 lowest-priced qualifying listings, and the purchase link      *)
(* getPartPrice returns, on the marketplace path and on a later cache hit, *)
(* is the URL of a qualifying listing whose price equals price_low,        *)
(* whatever order the marketplace returned the listings in.                *)
C23_LinkIsCheapestListing ==
  \A i \in DOMAIN tasks :
    LET t == tasks[i]
    IN  /\ (t.pc = "upsert" /\ t.response # None) =>
             LET all == offered(t.response[1].itemSummaries)
                 kept == sampled(t.pending[1].raw_data)
             IN  /\ kept \subseteq all
                 /\ Cardinality(kept) = Min(MaxSamples, Cardinality(all))
                 /\ \A k \in kept, o \in all \ kept : k.price <= o.price
        /\ (t.partPrice # None /\ t.partPrice[1].source = "ebay") =>
             LET quote == t.partPrice[1]
                 listed == IF t.cached # None
                           THEN sampled(t.cached[1].raw_data)
                           ELSE offered(t.response[1].itemSummaries)
             IN  \E l \in listed :
                   /\ quote.product_link = listingLink(l.url)
                   /\ l.price = quote.price_low

\* the line item e of item, built from the cache row `cached` if there is one
sourced(e, item, cached) ==
  /\ e.pricing_source \in {"ebay", "static"}
  /\ ~isReplacement(item) => e.pricing_source = "static"
  /\ cached # None => e.pricing_source = cached[1].source /\ cached[1].source = "ebay"

(* C24: after any sequence of resolutions every line item's pricing_source *)
(* is "ebay" or "static"; repair-only items are always "static"; a         *)
(* replacement served from the cache carries the stored source of the      *)
(* entry, which is always "ebay" because static fallback quotes are never  *)
(* written to the cache.                                                   *)
C24_PricingSourceTags ==
  /\ \A r \in cache : r.source = "ebay"
  /\ \A i \in DOMAIN tasks :
       tasks[i].result # None =>
         sourced(tasks[i].result[1], call.damageItems[i], tasks[i].cached)
  /\ output # None =>
       \A k \in DOMAIN output[1] :
         sourced(output[1][k], call.damageItems[k], tasks[k].cached)

\* the last call returned a line item served from a cache row that was
\* written after an earlier row for another key had expired
C24_Witness ==
  /\ output # None
  /\ calls = MaxRepeats
  /\ \E k \in DOMAIN output[1] :
       /\ tasks[k].cached # None
       /\ output[1][k].pricing_source = "ebay"
  /\ \E r \in cache : r.fetched_at > 0

\* task i has returned a quote of the marketplace, the store answering its
\* requests without fault
quotedFromMarketplace(i) ==
  /\ tasks[i].pc = "done"
  /\ tasks[i].cached = None
  /\ ~tasks[i].storeError
  /\ tasks[i].partPrice # None
  /\ tasks[i].partPrice[1].source = "ebay"

(* C25: after a cache entry for a key has expired, the next resolution for *)
(* that key that obtains a valid marketplace quote overwrites the stored   *)
(* entry (same key, new prices, new fetched_at and expires_at), so that a  *)
(* further resolution within the following 7 days is a cache hit.          *)
C25_ExpiredEntryOverwritten ==
  \A i \in DOMAIN tasks :
    quotedFromMarketplace(i) =>
      \E r \in rowsOf(i) :
        /\ r.fetched_at >= tasks[i].at
        /\ r.expires_at = r.fetched_at + CacheTtlMs
        /\ r.price_low = tasks[i].partPrice[1].price_low
        /\ r.price_high = tasks[i].partPrice[1].price_high

\* the keys for which a marketplace quote was sent to the store
writtenKeys == {g.key : g \in market}

(* C26: when resolutions for the same cache key run concurrently on a cold *)
(* cache, under every interleaving the cache ends with at most one entry   *)
(* for that key and that entry is the quote of the write the store         *)
(* answered last (last write wins), the store answering without fault.     *)
C26_LastWriteWins ==
  ~storeFaulted =>
    /\ \A k \in writtenKeys : Cardinality({r \in cache : r.cache_key = k}) <= 1
    /\ \A g \in market :
         \E r \in cache : r.cache_key = g.key /\ marketQuote(r.raw_data) = g.partPrice

\* tasks i and j of the running call replace the same part
samePart(i, j) ==
  /\ i # j
  /\ isReplacement(call.damageItems[i])
  /\ isReplacement(call.damageItems[j])
  /\ buildCacheKey(call.damageItems[i].part_name, inspected)
       = buildCacheKey(call.damageItems[j].part_name, inspected)

\* the search request of task i has been sent
searched(i) == tasks[i].pc = "search" \/ tasks[i].response # None

(* C27: within one buildEstimate call two observations that require        *)
(* replacement of the same part receive line items with the same           *)
(* pricing_source and the same parts price range, under every interleaving *)
(* and every marketplace behaviour, and the marketplace is searched at     *)
(* most once for that cache key.                                           *)
C27_SamePartSamePrice ==
  \A i, j \in DOMAIN tasks :
    samePart(i, j) =>
      /\ ~(searched(i) /\ searched(j))
      /\ (tasks[i].result # None /\ tasks[j].result # None) =>
           /\ tasks[i].result[1].pricing_source = tasks[j].result[1].pricing_source
           /\ tasks[i].result[1].parts_cost_low = tasks[j].result[1].parts_cost_low
           /\ tasks[i].result[1].parts_cost_high = tasks[j].result[1].parts_cost_high

\* the sum of a cost field over the stored rows with this is_included
storedSum(field, included) ==
  reduceSum(SelectSeq(estimate_items, LAMBDA row : row.is_included = included), field)

(* C28: the total cost range stored with a new inspection equals the sum   *)
(* of cost_low / cost_high over the line items included by default, so     *)
(* minor items, which are excluded by default, do not count towards the    *)
(* stored total, and the stored total equals the total the report page     *)
(* computes over included items.                                           *)
\* (stated of a stored inspection that the report page has loaded and no
\* dealer action has changed yet)
C28_StoredTotalOfIncluded ==
  (inspection # None /\ ~storeFaulted /\ items = estimate_items
     /\ \A k \in DOMAIN items :
          /\ items[k].cost_low = items[k].parts_cost_low + items[k].labor_cost_low
          /\ items[k].cost_high = items[k].parts_cost_high + items[k].labor_cost_high
          /\ items[k].is_included = isIncluded(items[k].severity, version)) =>
    /\ inspection[1].total_cost_low = storedSum("cost_low", TRUE)
    /\ inspection[1].total_cost_high = storedSum("cost_high", TRUE)
    /\ \A k \in DOMAIN estimate_items :
         estimate_items[k].severity = "minor" => ~estimate_items[k].is_included
    /\ inspection[1].total_cost_low = reportTotal("cost_low")
    /\ inspection[1].total_cost_high = reportTotal("cost_high")

(* C29: after any sequence of dealer actions on a report (toggling an      *)
(* item's inclusion, updating an item's cost range) every persisted        *)
(* estimate item still satisfies cost_low = parts_cost_low +               *)
(* labor_cost_low and cost_high = parts_cost_high + labor_cost_high.       *)
C29_PersistedCostsAddUp ==
  \A k \in DOMAIN estimate_items :
    /\ estimate_items[k].cost_low =
         estimate_items[k].parts_cost_low + estimate_items[k].labor_cost_low
    /\ estimate_items[k].cost_high =
         estimate_items[k].parts_cost_high + estimate_items[k].labor_cost_high

\* the tier the table lists for a make, written in any letter case and with
\* spaces between its words
listedTier ==
  [m \in {"Land Rover", "LAND  ROVER", "land rover", "Range Rover", "RANGE ROVER",
          "range rover", "Rolls Royce", "ROLLS ROYCE", "Aston Martin"} |-> "ultra_luxury"]
  @@ [m \in {"Alfa Romeo"} |-> "premium"]
  @@ [m \in {"Mercedes-Benz", "BMW"} |-> "luxury"]
  @@ [m \in {"Nissan"} |-> "economy"]
  @@ TIER_MAP

(* C30: getVehicleTier lowercases the make and replaces whitespace runs by *)
(* underscores before the lookup; for every make the tier table lists      *)
(* (the multi-word makes Land Rover, Range Rover, Alfa Romeo, Rolls Royce, *)
(* Aston Martin included, in any letter case) it returns the listed tier,  *)
(* for every other make mainstream; getTierMultiplier returns 0.85, 1.0,   *)
(* 1.3, 1.6, 2.2 for economy, mainstream, premium, luxury, ultra_luxury;   *)
(* getLaborRateMultiplier returns 0.8, 1.0, 1.3 for low, medium, high and  *)
(* 1.0 for any other input.                                                *)
C30_TierAndRateLookups ==
  (trial.op = "makes" /\ trial.output # None) =>
    LET make == trial.input.make
        rate == trial.input.laborRateTier
        out == trial.output[1]
    IN  /\ out.tier = IF make \in DOMAIN listedTier THEN listedTier[make] ELSE "mainstream"
        /\ out.tierMultiplier =
             CASE out.tier = "economy" -> 85
               [] out.tier = "mainstream" -> 100
               [] out.tier = "premium" -> 130
               [] out.tier = "luxury" -> 160
               [] out.tier = "ultra_luxury" -> 220
               [] OTHER -> 100
        /\ out.laborMultiplier =
             CASE rate = "low" -> 80
               [] rate = "medium" -> 100
               [] rate = "high" -> 130
               [] OTHER -> 100

====
